---------------------------- MODULE Spec2Model ----------------------------
(***************************************************************************)
(* go-imap-backup: the local folder store (an .mbox archive and its .idx   *)
(* index per folder), the diff of a remote listing against it, and the     *)
(* commands that drive them.                                               *)
(*                                                                         *)
(* Files are sequences of bytes.  A byte is a one-character string; the    *)
(* token "F" stands for the fixed text "From " of a delimiter line and "d" *)
(* for its " <ANSIC date>" part, whose length does not depend on the       *)
(* message.  Offsets are 0-based as in the code: offset n of a file is     *)
(* element n+1 of its sequence.                                            *)
(***************************************************************************)
EXTENDS Integers, Sequences, FiniteSets, TLC

VARIABLES
    env,        \* platform and privileges of the process
    disk,       \* disk[f] = the two files of local folder f
    wr,         \* wr[f] = the LocalFolder handle opened for append on f
    rd,         \* the LocalFolder handle opened read-only
    rall,       \* what the last ReadAllIndex call returned
    last,       \* the last call on the store and whether it returned no error
    appended,   \* appended[f] = the Append calls on f that returned nil
    crashed,    \* the process was interrupted at least once
    remote,     \* remote[f] = mailbox f of the IMAP account
    proc,       \* the running program: its flags, its position, its locals
    hist,       \* what the runs so far did
    fn,         \* a call of a function of meta.go: its arguments and results
    fetch       \* a fetch in progress: the channels and the two tasks

vars ==
    <<env, disk, wr, rd, rall, last, appended, crashed, remote, proc, hist, fn,
      fetch>>

----------------------------------------------------------------------------
(* Bounds of the model *)

\* Append calls per folder in the store-level specifications
MaxAppends == 3
\* Stands for bufio's buffer size (4096 in the library): the number of bytes
\* the index writer holds back before it writes to the file
IdxBufSize == 12

\* The folder names, in the order of sort.Strings
FolderOrder == <<"A", "B">>

Folders == {FolderOrder[i] : i \in 1..Len(FolderOrder)}

\* The folder the store-level specifications work on
StoreFolders == {"A"}

\* The messages handed to Append in the store-level specifications: bodies of
\* 0, 1 and 2 bytes (one of them looks like a delimiter), with and without
\* a sender address, under two validity stamps
AppendInputs ==
    { [UidValidity |-> 7, Uid |-> 1, from |-> <<>>,    body |-> <<"a">>],
      [UidValidity |-> 7, Uid |-> 2, from |-> <<"x">>, body |-> <<"b", "F">>],
      [UidValidity |-> 8, Uid |-> 1, from |-> <<"x">>, body |-> <<>>] }

----------------------------------------------------------------------------
(* Bytes and decimal numbers *)

DigitChars == <<"0", "1", "2", "3", "4", "5", "6", "7", "8", "9">>

IsDigit(c) == \E i \in 1..10 : DigitChars[i] = c

DigitVal(c) == (CHOOSE i \in 1..10 : DigitChars[i] = c) - 1

RECURSIVE Dec(_)
\* fmt's %d of a non-negative number
Dec(n) ==
    IF n < 10 THEN <<DigitChars[n + 1]>>
    ELSE Dec(n \div 10) \o <<DigitChars[(n % 10) + 1]>>

\* bytes [off, off+n) of a file, cut at its end
ReadAt(data, off, n) ==
    SubSeq(data, off + 1, IF off + n > Len(data) THEN Len(data) ELSE off + n)

IsPrefix(s, t) == Len(s) <= Len(t) /\ SubSeq(t, 1, Len(s)) = s

----------------------------------------------------------------------------
(* Files *)

NoFile == [exists |-> FALSE, data |-> <<>>, writable |-> FALSE]

\* os.OpenFile(name, O_APPEND|O_CREATE|O_WRONLY, 0400): a new file is created
\* without the owner's write permission (read-only attribute on Windows)
CreatedFile == [exists |-> TRUE, data |-> <<>>, writable |-> FALSE]

\* Whether opening the file for writing succeeds: it is created when absent;
\* an existing file needs the write permission, which only root goes without
CanOpenForWrite(file) ==
    \/ ~file.exists
    \/ file.writable
    \/ env = "unix-root"

NoHandle == [open |-> FALSE, buf |-> <<>>, full |-> FALSE]

----------------------------------------------------------------------------
(* The archive and the index as Append writes them *)

\* "From %s %s\n": the delimiter line
Header(from) == <<"F">> \o from \o <<"d", "\n">>

\* "%d\t%d\t%d\t%d\n": one index record
IdxLine(uidValidity, uid, size, pos) ==
    Dec(uidValidity) \o <<"\t">> \o Dec(uid) \o <<"\t">> \o Dec(size)
        \o <<"\t">> \o Dec(pos) \o <<"\n">>

RECURSIVE BufioWrite(_, _, _)
\* bufio.Writer.Write(p) on a writer holding buf over a file holding data:
\* while p does not fit, an empty buffer passes p through to the file, a
\* non-empty one is filled up with the head of p and flushed
BufioWrite(buf, data, p) ==
    IF Len(p) > IdxBufSize - Len(buf)
    THEN IF Len(buf) = 0
         THEN [buf |-> <<>>, data |-> data \o p]
         ELSE LET n == IdxBufSize - Len(buf)
              IN  BufioWrite(<<>>, data \o buf \o SubSeq(p, 1, n),
                             SubSeq(p, n + 1, Len(p)))
    ELSE [buf |-> buf \o p, data |-> data]

\* Mutant of BodyPos: the position is taken before the delimiter line is
\* written
BodyPosBeforeHeader(mbox, from) == Len(mbox)

\* The position Append records: Seek(0, io.SeekCurrent) after the delimiter
\* line was written at the end of the file
BodyPos(mbox, from) == Len(mbox \o Header(from))

\* The archive after Append: delimiter line, body, blank separator line
MboxAfterAppend(mbox, from, bs) == mbox \o Header(from) \o bs \o <<"\n">>

\* bufio.Writer.Flush as Close calls it
Flush(buf, data) == data \o buf

\* bufio.Writer.Write(p) over a file whose writes fail: p is buffered while
\* it fits; the first write to the file fails, the writer keeps that error
\* and drops every later write. Nothing reaches the file.
BufioWriteFailing(buf, data, p) ==
    [buf  |-> IF Len(p) > IdxBufSize - Len(buf) THEN buf ELSE buf \o p,
     data |-> data]

----------------------------------------------------------------------------
(* Reading the index: bufio.Scanner lines and fmt.Sscanf *)

\* index of the first newline of data, 0 when it has none
FirstNewline(data) ==
    IF \E i \in 1..Len(data) : data[i] = "\n"
    THEN CHOOSE i \in 1..Len(data) :
            data[i] = "\n" /\ \A j \in 1..(i - 1) : data[j] # "\n"
    ELSE 0

RECURSIVE ScanLines(_)
\* The tokens bufio.Scanner yields with its default split function: the
\* lines without their newline, and a last unterminated line if not empty
ScanLines(data) ==
    IF data = <<>> THEN <<>>
    ELSE LET i == FirstNewline(data)
         IN  IF i = 0 THEN <<data>>
             ELSE <<SubSeq(data, 1, i - 1)>>
                      \o ScanLines(SubSeq(data, i + 1, Len(data)))

RECURSIVE SkipSpace(_, _)
\* first position at or after p that holds no tab
SkipSpace(line, p) ==
    IF p <= Len(line) /\ line[p] = "\t" THEN SkipSpace(line, p + 1) ELSE p

RECURSIVE ScanDigits(_, _)
\* first position at or after p that holds no digit
ScanDigits(line, p) ==
    IF p <= Len(line) /\ IsDigit(line[p]) THEN ScanDigits(line, p + 1) ELSE p

RECURSIVE NumVal(_, _, _)
\* the decimal number written in line[a..b-1]
NumVal(line, a, b) ==
    IF b <= a THEN 0
    ELSE 10 * NumVal(line, a, b - 1) + DigitVal(line[b - 1])

\* The result of one %d whose digits are line[q..e-1]
ScanNumberTo(line, q, e) == [ok |-> e > q, next |-> e, val |-> NumVal(line, q, e)]

\* One %d of Sscanf from position p: white space is skipped, then at least
\* one digit is needed
ScanField(line, p) ==
    LET q == SkipSpace(line, p)
    IN  ScanNumberTo(line, q, ScanDigits(line, q))

RECURSIVE ScanFields(_, _, _)
\* The values of the first n verbs of the format that scan from position p,
\* up to the first that fails; f is the result of the first of them
ScanNext(line, f, n) ==
    IF ~f.ok THEN <<>> ELSE <<f.val>> \o ScanFields(line, f.next, n - 1)

ScanFields(line, p, n) ==
    IF n = 0 THEN <<>> ELSE ScanNext(line, ScanField(line, p), n)

\* fmt.Sscanf(line, "%d\t%d\t%d\t%d", ...): the values scanned before the
\* first failure; input left over after the fourth number is not an error
Sscanf(line) == ScanFields(line, 1, 4)

----------------------------------------------------------------------------
(* The read-only LocalFolder handle *)

NoErr == [kind |-> "nil", name |-> "", line |-> 0]

\* fmt.Errorf("%s:%d: %s", lf.Idx.Name(), line, ...)
ParseErr(name, line) == [kind |-> "parse", name |-> name, line |-> line]

EOFErr == [kind |-> "EOF", name |-> "", line |-> 0]

\* math.MaxUint64, the offset of a message that is not stored locally
UnknownOffset == -1

ZeroMeta == [SeqNum |-> 0, UidValidity |-> 0, Uid |-> 0, Size |-> 0, Offset |-> 0]

\* the zero byte of a buffer fresh from make([]byte, n)
ZeroByte == "@"

ZeroBytes(n) == [i \in 1..n |-> ZeroByte]

ClosedReader ==
    [open |-> FALSE, Name |-> "", IdxLineNo |-> 0, scanned |-> 0,
     err |-> NoErr, mm |-> ZeroMeta, message |-> <<>>]

\* The handle OpenLocalFolderReadOnly returns
NewReader(name) ==
    [open |-> TRUE, Name |-> name, IdxLineNo |-> 1, scanned |-> 0,
     err |-> NoErr, mm |-> ZeroMeta, message |-> <<>>]

\* lf.mm after Sscanf stored the values vs into its fields, in order
StoreFields(mm, vs) ==
    [mm EXCEPT !.UidValidity = IF Len(vs) >= 1 THEN vs[1] ELSE @,
               !.Uid         = IF Len(vs) >= 2 THEN vs[2] ELSE @,
               !.Size        = IF Len(vs) >= 3 THEN vs[3] ELSE @,
               !.Offset      = IF Len(vs) >= 4 THEN vs[4] ELSE @]

\* The line number IdxScan holds while it parses a line: it has counted the
\* line it just scanned on top of the initial 1
LineNoAfterScan(lf) == lf.IdxLineNo + 1

\* IdxScan once the scanner delivered a line that Sscanf scanned to vs
IdxScanParsed(lf, vs) ==
    [lf  |-> [lf EXCEPT !.IdxLineNo = LineNoAfterScan(lf),
                        !.scanned = @ + 1,
                        !.mm = StoreFields(@, vs),
                        !.err = IF Len(vs) < 4
                                THEN ParseErr(lf.Name, LineNoAfterScan(lf))
                                ELSE @],
     res |-> Len(vs) = 4]

\* IdxScan over the lines the scanner yields
IdxScanLines(lf, lines) ==
    IF lf.scanned >= Len(lines)
    THEN [lf  |-> [lf EXCEPT !.IdxLineNo = LineNoAfterScan(lf), !.err = NoErr],
          res |-> FALSE]
    ELSE IdxScanParsed(lf, Sscanf(lines[lf.scanned + 1]))

\* LocalFolder.IdxScan over an index file holding idx: the handle afterwards
\* and the result
IdxScan(lf, idx) == IdxScanLines(lf, ScanLines(idx))

\* The buffer MboxScan reads into: it is replaced only when too short
ScanBuffer(message, size) ==
    IF Len(message) < size THEN ZeroBytes(size) ELSE message

\* lf.Mbox.Read(lf.message) returned the bytes got into the buffer buf
MboxReadInto(lf, buf, got) ==
    IF Len(buf) > 0 /\ Len(got) = 0
    THEN [lf  |-> [lf EXCEPT !.message = buf, !.err = EOFErr],
          res |-> FALSE]
    ELSE [lf  |-> [lf EXCEPT
                     !.message = got \o SubSeq(buf, Len(got) + 1, Len(buf)),
                     !.err = NoErr],
          res |-> TRUE]

\* MboxScan after its IdxScan returned s: seek to the offset, read the buffer
MboxScanAfterIdx(s, mbox, buf) ==
    IF ~s.res THEN s
    ELSE MboxReadInto(s.lf, buf, ReadAt(mbox, s.lf.mm.Offset, Len(buf)))

\* MboxScan given the result s of its IdxScan
MboxScanWith(s, mbox) ==
    MboxScanAfterIdx(s, mbox, ScanBuffer(s.lf.message, s.lf.mm.Size))

\* LocalFolder.MboxScan over the files d: the handle afterwards and the result
MboxScan(lf, d) == MboxScanWith(IdxScan(lf, d.idx.data), d.mbox.data)

\* LocalFolder.MboxText
MboxText(lf) == lf.message

NoMeta == [ok |-> FALSE, Name |-> "", UidValidity |-> 0, Messages |-> <<>>, Size |-> 0]

\* The line number ReadAllIndex puts in front of a scan error
ReadAllLineNo == 1

RECURSIVE ReadAllLoop(_, _, _)
\* The body of the loop of ReadAllIndex, s being what IdxScan returned
ReadAllStep(s, idx, f) ==
    IF ~s.res THEN [lf |-> s.lf, f |-> f]
    ELSE ReadAllLoop(s.lf, idx,
             [f EXCEPT !.Messages = Append(@, s.lf.mm),
                       !.UidValidity = s.lf.mm.UidValidity,
                       !.Size = @ + s.lf.mm.Size])

\* The loop of ReadAllIndex: scans until IdxScan returns false
ReadAllLoop(lf, idx, f) == ReadAllStep(IdxScan(lf, idx), idx, f)

\* What ReadAllIndex returns after its loop ended as r
ReadAllResult(name, r) ==
    IF r.lf.err # NoErr
    THEN [lf |-> r.lf, f |-> NoMeta,
          err |-> [kind |-> "wrapped", name |-> name,
                   line |-> ReadAllLineNo, cause |-> r.lf.err]]
    ELSE [lf |-> r.lf, f |-> r.f, err |-> NoErr]

\* LocalFolder.ReadAllIndex: the handle afterwards, the snapshot (NoMeta for
\* nil) and the error, whose text is "<name>:<line>: <scan error>"
ReadAllIndex(lf, idx) ==
    ReadAllResult(lf.Name,
        ReadAllLoop(lf, idx, [ok |-> TRUE, Name |-> lf.Name, UidValidity |-> 0,
                              Messages |-> <<>>, Size |-> 0]))

----------------------------------------------------------------------------
(* Message identities and the diff of two listings *)

\* The bits of a uint32 of the model; the key has twice as many.  (The code
\* has 32 and 64.)
WordBits == 4

\* 1 << WordBits: the number of values of a uint32
Word == 2 ^ WordBits

RECURSIVE BitOr(_, _)
\* a | b
BitOr(a, b) ==
    IF a = 0 THEN b
    ELSE IF b = 0 THEN a
    ELSE 2 * BitOr(a \div 2, b \div 2)
            + (IF a % 2 = 1 \/ b % 2 = 1 THEN 1 ELSE 0)

\* uint64(x) << 32: the shift is made in the width of the key
ShlWord(x) == (x * Word) % (Word * Word)

\* Mutant of GetUuid: the shift is made in the width of UidValidity
GetUuidNarrowShift(md) == BitOr((md.UidValidity * Word) % Word, md.Uid)

\* Mutant of GetUuid: the key is the Uid alone
GetUuidUidOnly(md) == md.Uid

\* MessageMeta.GetUuid: (uint64(UidValidity) << 32) | uint64(Uid)
GetUuid(md) == BitOr(ShlWord(md.UidValidity), md.Uid)

\* The index of the last message of msgs with identity k
LastWithUuid(msgs, k) ==
    CHOOSE i \in 1..Len(msgs) :
        /\ GetUuid(msgs[i]) = k
        /\ \A j \in (i + 1)..Len(msgs) : GetUuid(msgs[j]) # k

\* Mutant of GetMap: the loop leaves out the last message
GetMapSkipLast(f) ==
    [k \in {GetUuid(f.Messages[i]) : i \in 1..(Len(f.Messages) - 1)} |->
        f.Messages[LastWithUuid(SubSeq(f.Messages, 1, Len(f.Messages) - 1), k)]]

\* ImapFolderMeta.GetMap: a later message replaces an earlier one of its key
GetMap(f) ==
    [k \in {GetUuid(f.Messages[i]) : i \in 1..Len(f.Messages)} |->
        f.Messages[LastWithUuid(f.Messages, k)]]

RECURSIVE SumSizes(_)
SumSizes(msgs) ==
    IF msgs = <<>> THEN 0 ELSE Head(msgs).Size + SumSizes(Tail(msgs))

\* The two results of FilterOut
Kept(res) == [Messages |-> res, Size |-> SumSizes(res)]

\* Mutant of FilterOutMap: the test of the map is inverted
FilterOutMapKeepsFound(msgs, outMap) ==
    Kept(SelectSeq(msgs, LAMBDA md : GetUuid(md) \in DOMAIN outMap))

FilterOutMap(msgs, outMap) ==
    Kept(SelectSeq(msgs, LAMBDA md : GetUuid(md) \notin DOMAIN outMap))

\* ImapFolderMeta.FilterOut(out)
FilterOut(f, out) == FilterOutMap(f.Messages, GetMap(out))

----------------------------------------------------------------------------
(* The IMAP account *)

\* A mailbox as the server holds it; a message is its UID, the address of
\* its envelope's sender and its RFC822 text
EmptyMailbox == [exists |-> TRUE, UidValidity |-> 7, UidNext |-> 1,
                 Messages |-> <<>>]

\* The number of UIDs the server has given out
RECURSIVE UidsGivenIn(_, _)
UidsGivenIn(r, names) ==
    IF names = <<>> THEN 0
    ELSE (r[Head(names)].UidNext - 1) + UidsGivenIn(r, Tail(names))

UidsGiven == UidsGivenIn(remote, FolderOrder)

\* ListFolders: the names of the account's mailboxes, sorted
ListFolders == SelectSeq(FolderOrder, LAMBDA f : remote[f].exists)

\* The MessageMeta NewImapFolderMeta makes of message i of the mailbox
ListedMessage(rf, i) ==
    [SeqNum |-> i, UidValidity |-> rf.UidValidity, Uid |-> rf.Messages[i].Uid,
     Size |-> Len(rf.Messages[i].body), Offset |-> UnknownOffset]

ListedMessages(rf) == [i \in 1..Len(rf.Messages) |-> ListedMessage(rf, i)]

FolderMeta(name, uidValidity, msgs) ==
    [ok |-> TRUE, Name |-> name, UidValidity |-> uidValidity,
     Messages |-> msgs, Size |-> SumSizes(msgs)]

\* NewImapFolderMeta(c, folderName) when the server answers
NewImapFolderMeta(name, rf) ==
    FolderMeta(name, rf.UidValidity, ListedMessages(rf))

----------------------------------------------------------------------------
(* The functions of meta.go called on their own *)

\* The longest message list handed to FilterOut
MaxList == 3

\* Values of a uint32 field, the least and the greatest among them
WordValues == {0, 1, 7, 8, Word - 1}

\* The records FilterOut is called on: two with the same key and different
\* other fields (one as listed by the server, one as read from an index),
\* one with the same Uid under another UidValidity, one with another Uid
FilterMetas ==
    { [SeqNum |-> 1, UidValidity |-> 7, Uid |-> 1, Size |-> 1, Offset |-> UnknownOffset],
      [SeqNum |-> 0, UidValidity |-> 7, Uid |-> 1, Size |-> 3, Offset |-> 5],
      [SeqNum |-> 0, UidValidity |-> 8, Uid |-> 1, Size |-> 1, Offset |-> 0],
      [SeqNum |-> 2, UidValidity |-> 7, Uid |-> 2, Size |-> 2, Offset |-> UnknownOffset] }

\* The message lists of up to n records
ListsUpTo(n) == UNION { [1..k -> FilterMetas] : k \in 0..n }

\* No call yet, and no arguments
NoCall ==
    [op |-> "none", kind |-> "none", a |-> ZeroMeta, b |-> ZeroMeta,
     ka |-> 0, kb |-> 0,
     src |-> FolderMeta("A", 0, <<>>), exc |-> FolderMeta("A", 0, <<>>),
     src0 |-> FolderMeta("A", 0, <<>>), exc0 |-> FolderMeta("A", 0, <<>>),
     res |-> Kept(<<>>)]

\* No fetch in progress
NoFetch ==
    [kind |-> "none", n |-> 0, sent |-> 0, messages |-> <<>>, closed |-> FALSE,
     res |-> "nil", done |-> <<>>, producer |-> "exit", consumer |-> "returned",
     got |-> <<>>, aborted |-> FALSE, err |-> "nil"]

\* The arguments of two GetUuid calls
UuidCalls ==
    { [NoCall EXCEPT !.kind = "uuid",
                     !.a = [ZeroMeta EXCEPT !.UidValidity = va, !.Uid = ua],
                     !.b = [ZeroMeta EXCEPT !.UidValidity = vb, !.Uid = ub]] :
          va \in WordValues, ua \in WordValues,
          vb \in WordValues, ub \in WordValues }

\* The arguments of a FilterOut call: the receiver and out
FilterCalls ==
    { [NoCall EXCEPT !.kind = "filter",
                     !.src = FolderMeta("A", 7, s),
                     !.exc = FolderMeta("A", 7, e),
                     !.src0 = FolderMeta("A", 7, s),
                     !.exc0 = FolderMeta("A", 7, e)] :
          s \in ListsUpTo(MaxList), e \in ListsUpTo(MaxList - 1) }

\* The variables of the store and of the program
otherVars ==
    <<env, disk, wr, rd, rall, last, appended, crashed, remote, proc, hist,
      fetch>>

----------------------------------------------------------------------------
(* The store's operations as steps of a caller that holds the handles *)

Envs == {"windows", "unix", "unix-root"}

NoRall == [valid |-> FALSE, fresh |-> FALSE, name |-> "", f |-> NoMeta, err |-> NoErr]

\* The program before main: no command yet, no exit status
IdleProc ==
    [pc |-> "idle", cmd |-> "", months |-> 0, force |-> FALSE, i |-> 0,
     err |-> "nil", folders |-> <<>>, totalMsgs |-> 0, filteredMsgs |-> 0,
     filteredSize |-> 0, j |-> 0, yn |-> <<>>, restrict |-> <<>>, exit |-> -1]

\* Nothing has run yet
NoHist ==
    [runs |-> 0, outcomes |-> <<>>, changed |-> FALSE, stable |-> FALSE,
     second |-> FALSE, nAppends |-> 0, uploads |-> <<>>]

InitStore ==
    /\ remote = [f \in Folders |-> EmptyMailbox]
    /\ proc = IdleProc
    /\ hist = NoHist
    /\ fn = NoCall
    /\ fetch = NoFetch
    /\ env \in Envs
    /\ disk = [f \in Folders |-> [mbox |-> NoFile, idx |-> NoFile]]
    /\ wr = [f \in Folders |-> NoHandle]
    /\ rd = ClosedReader
    /\ rall = NoRall
    /\ last = [op |-> "none", ok |-> TRUE]
    /\ appended = [f \in Folders |-> <<>>]
    /\ crashed = FALSE

\* Mutant of OpenedForAppend: the file is opened with O_TRUNC
OpenedTruncating(file) ==
    IF file.exists THEN [file EXCEPT !.data = <<>>] ELSE CreatedFile

\* The file a successful open for append leaves on disk
OpenedForAppend(file) == IF file.exists THEN file ELSE CreatedFile

\* OpenLocalFolderAppend(path, name): the archive is opened (created) first,
\* then the index; a failure of the second closes the first
OpenAppendFiles(d) ==
    IF ~CanOpenForWrite(d.mbox)
    THEN [ok |-> FALSE, d |-> d]
    ELSE IF ~CanOpenForWrite(d.idx)
    THEN [ok |-> FALSE, d |-> [d EXCEPT !.mbox = OpenedForAppend(@)]]
    ELSE [ok |-> TRUE, d |-> [d EXCEPT !.mbox = OpenedForAppend(@),
                                       !.idx = OpenedForAppend(@)]]

\* The handle OpenLocalFolderAppend returns
NewWriter == [open |-> TRUE, buf |-> <<>>, full |-> FALSE]

\* A caller of the store opens folder name for append
OpenLocalFolderAppend(name) ==
    /\ ~wr[name].open
    /\ ~rd.open
    /\ LET o == OpenAppendFiles(disk[name])
       IN  /\ last' = [op |-> "OpenLocalFolderAppend", ok |-> o.ok]
           /\ disk' = [disk EXCEPT ![name] = o.d]
           /\ wr' = [wr EXCEPT ![name] = IF o.ok THEN NewWriter ELSE @]
    /\ UNCHANGED <<env, rd, rall, appended, crashed, remote, proc, hist, fn, fetch>>

\* The files and the handle after lf.Append(uidValidity, uid, from, when, bs)
\* went through all its writes
AppendEffect(d, lf, uidValidity, uid, from, bs) ==
    LET pos == BodyPos(d.mbox.data, from)
        p   == IdxLine(uidValidity, uid, Len(bs), pos)
        w   == IF lf.full THEN BufioWriteFailing(lf.buf, d.idx.data, p)
               ELSE BufioWrite(lf.buf, d.idx.data, p)
    IN  [d  |-> [d EXCEPT !.mbox.data = MboxAfterAppend(@, from, bs),
                          !.idx.data = w.data],
         lf |-> [lf EXCEPT !.buf = w.buf]]

\* LocalFolder.Append on the handle of folder name
DoAppend(name, uidValidity, uid, from, bs) ==
    /\ wr[name].open
    /\ Len(appended[name]) < MaxAppends
    /\ LET e == AppendEffect(disk[name], wr[name], uidValidity, uid, from, bs)
       IN  /\ disk' = [disk EXCEPT ![name] = e.d]
           /\ wr' = [wr EXCEPT ![name] = e.lf]
    /\ appended' = [appended EXCEPT ![name] =
                      Append(@, [UidValidity |-> uidValidity, Uid |-> uid,
                                 from |-> from, body |-> bs])]
    /\ last' = [op |-> "Append", ok |-> TRUE]
    /\ UNCHANGED <<env, rd, rall, crashed, remote, proc, hist, fn, fetch>>

\* Mutant of IdxAfterClose: Close does not flush the index writer
IdxAfterCloseNoFlush(lf, idx) == idx

\* The index file after LocalFolder.Close on a handle opened for append
IdxAfterClose(lf, idx) == IF lf.full THEN idx ELSE Flush(lf.buf, idx)

\* LocalFolder.Close on the append handle of folder name
CloseAppend(name) ==
    /\ wr[name].open
    /\ disk' = [disk EXCEPT ![name].idx.data = IdxAfterClose(wr[name], @)]
    /\ wr' = [wr EXCEPT ![name] = NoHandle]
    /\ last' = [op |-> "Close", ok |-> TRUE]
    /\ UNCHANGED <<env, rd, rall, appended, crashed, remote, proc, hist, fn, fetch>>

\* Whether os.Open finds both files of the folder
\* The file after an open that creates what is missing
OpenedCreating(file) == IF file.exists THEN file ELSE CreatedFile

\* os.Open(name): the file afterwards; nothing is created or written
OpenedReadOnly(file) == file

\* The files of a folder after OpenLocalFolderReadOnly: the index is opened
\* when the mbox file was
OpenReadOnlyFiles(d) ==
    [mbox |-> OpenedReadOnly(d.mbox),
     idx  |-> IF d.mbox.exists THEN OpenedReadOnly(d.idx) ELSE d.idx]

FoundLocal(d) == d.mbox.exists /\ d.idx.exists

\* OpenLocalFolderReadOnly(path, name)
OpenLocalFolderReadOnly(name) ==
    /\ ~rd.open
    /\ ~wr[name].open
    /\ IF FoundLocal(disk[name])
       THEN /\ rd' = NewReader(name)
            /\ last' = [op |-> "OpenLocalFolderReadOnly", ok |-> TRUE]
       ELSE /\ rd' = rd
            /\ last' = [op |-> "OpenLocalFolderReadOnly", ok |-> FALSE]
    /\ UNCHANGED <<env, disk, wr, rall, appended, crashed, remote, proc, hist, fn, fetch>>

\* A call that would scan further than one line past the end is left out
MayScan == rd.open /\ rd.scanned + 1 >= rd.IdxLineNo - 1
                   /\ rd.IdxLineNo <= Len(ScanLines(disk[rd.Name].idx.data)) + 1

DoIdxScan ==
    /\ MayScan
    /\ LET s == IdxScan(rd, disk[rd.Name].idx.data)
       IN  /\ rd' = s.lf
           /\ last' = [op |-> "IdxScan", ok |-> s.res]
    /\ UNCHANGED <<env, disk, wr, rall, appended, crashed, remote, proc, hist, fn, fetch>>

DoMboxScan ==
    /\ MayScan
    /\ LET s == MboxScan(rd, disk[rd.Name])
       IN  /\ rd' = s.lf
           /\ last' = [op |-> "MboxScan", ok |-> s.res]
    /\ UNCHANGED <<env, disk, wr, rall, appended, crashed, remote, proc, hist, fn, fetch>>

DoReadAllIndex ==
    /\ MayScan
    /\ LET r == ReadAllIndex(rd, disk[rd.Name].idx.data)
       IN  /\ rd' = r.lf
           /\ rall' = [valid |-> TRUE, fresh |-> rd.scanned = 0,
                       name |-> rd.Name, f |-> r.f, err |-> r.err]
           /\ last' = [op |-> "ReadAllIndex", ok |-> r.err = NoErr]
    /\ UNCHANGED <<env, disk, wr, appended, crashed, remote, proc, hist, fn, fetch>>

\* LocalFolder.Close on the read-only handle
CloseReader ==
    /\ rd.open
    /\ rd' = ClosedReader
    /\ last' = [op |-> "Close", ok |-> TRUE]
    /\ UNCHANGED <<env, disk, wr, rall, appended, crashed, remote, proc, hist, fn, fetch>>

\* The process is killed: what the index writers still hold is lost, the
\* files keep what was written to them
Interrupt ==
    /\ \E f \in Folders : wr[f].open
    /\ wr' = [f \in Folders |-> NoHandle]
    /\ rd' = ClosedReader
    /\ crashed' = TRUE
    /\ last' = [op |-> "interrupt", ok |-> FALSE]
    /\ UNCHANGED <<env, disk, rall, appended, remote, proc, hist, fn, fetch>>

NextStore ==
    \/ \E f \in StoreFolders : OpenLocalFolderAppend(f)
    \/ \E f \in StoreFolders, m \in AppendInputs :
          DoAppend(f, m.UidValidity, m.Uid, m.from, m.body)
    \/ \E f \in StoreFolders : CloseAppend(f)
    \/ \E f \in StoreFolders : OpenLocalFolderReadOnly(f)
    \/ DoIdxScan
    \/ DoMboxScan
    \/ DoReadAllIndex
    \/ CloseReader

SpecStore == InitStore /\ [][NextStore]_vars

NextCrash == NextStore \/ Interrupt

SpecCrash == InitStore /\ [][NextCrash]_vars

\* The device stops accepting writes to the index file of an open folder
\* (disk full, quota, I/O error)
IdxDeviceFails(name) ==
    /\ wr[name].open
    /\ ~wr[name].full
    /\ wr' = [wr EXCEPT ![name].full = TRUE]
    /\ UNCHANGED <<env, disk, rd, rall, last, appended, crashed, remote, proc,
                   hist, fn, fetch>>

NextIoFail == NextStore \/ \E f \in StoreFolders : IdxDeviceFails(f)

SpecIoFail == InitStore /\ [][NextIoFail]_vars

----------------------------------------------------------------------------
(* The functions of meta.go as steps of a caller *)

InitPure ==
    /\ env = "unix"
    /\ disk = [f \in Folders |-> [mbox |-> NoFile, idx |-> NoFile]]
    /\ wr = [f \in Folders |-> NoHandle]
    /\ rd = ClosedReader
    /\ rall = NoRall
    /\ last = [op |-> "none", ok |-> TRUE]
    /\ appended = [f \in Folders |-> <<>>]
    /\ crashed = FALSE
    /\ remote = [f \in Folders |-> EmptyMailbox]
    /\ proc = IdleProc
    /\ hist = NoHist
    /\ fn \in UuidCalls \cup FilterCalls
    /\ fetch = NoFetch

\* a.GetUuid() and b.GetUuid()
CallGetUuid ==
    /\ fn.op = "none"
    /\ fn.kind = "uuid"
    /\ fn' = [fn EXCEPT !.op = "GetUuid", !.ka = GetUuid(fn.a),
                        !.kb = GetUuid(fn.b)]
    /\ UNCHANGED otherVars

\* src.FilterOut(exc); the function writes to neither of the two
CallFilterOut ==
    /\ fn.op = "none"
    /\ fn.kind = "filter"
    /\ fn' = [fn EXCEPT !.op = "FilterOut", !.res = FilterOut(fn.src, fn.exc)]
    /\ UNCHANGED otherVars

\* src.FilterOut(src)
CallFilterOutSelf ==
    /\ fn.op = "none"
    /\ fn.kind = "filter"
    /\ fn' = [fn EXCEPT !.op = "FilterOutSelf",
                        !.res = FilterOut(fn.src, fn.src)]
    /\ UNCHANGED otherVars

NextPure == CallGetUuid \/ CallFilterOut \/ CallFilterOutSelf

SpecPure == InitPure /\ [][NextPure]_vars

----------------------------------------------------------------------------
(* cmdHisto as a step of a caller; the account is given by the message
   sizes NewImapFolderMeta lists for each of the folders *)

\* Message sizes: below, at and above the strides the calls use
HistoSizes == {0, 1, 2, 5}

\* The sizes listed for one folder, and for the folders of an account
HistoFolder == UNION { [1..k -> HistoSizes] : k \in 0..2 }
HistoFolders == UNION { [1..k -> HistoFolder] : k \in 0..2 }

\* The sizes of all messages, folder after folder
RECURSIVE AllSizes(_)
AllSizes(folders) ==
    IF folders = <<>> THEN <<>>
    ELSE Head(folders) \o AllSizes(Tail(folders))

\* The bin of a message: the last bin is the "or larger" bin
HistoBin(size, numBins, binStrideBytes) ==
    LET bin == size \div binStrideBytes
    IN  IF bin >= numBins THEN numBins - 1 ELSE bin

\* bins after the loop over the messages; bins[1] is the code's bins[0]
RECURSIVE CountBins(_, _, _, _)
CountBins(sizes, bins, numBins, binStrideBytes) ==
    IF sizes = <<>> THEN bins
    ELSE CountBins(Tail(sizes),
                   [bins EXCEPT ![HistoBin(Head(sizes), numBins,
                                           binStrideBytes) + 1] = @ + 1],
                   numBins, binStrideBytes)

\* cmdHisto(c, folderNames, numBins, binStrideBytes) when every listing
\* succeeds: the average divides totalSize by totalMsgs, an integer division
\* that panics when totalMsgs is 0; no bins are returned then
cmdHisto(folders, numBins, binStrideBytes) ==
    LET sizes     == AllSizes(folders)
        totalMsgs == Len(sizes)
    IN  IF totalMsgs = 0
        THEN [panic |-> TRUE, bins |-> <<>>]
        ELSE [panic |-> FALSE,
              bins  |-> CountBins(sizes, [b \in 1..numBins |-> 0],
                                  numBins, binStrideBytes)]

InitHisto ==
    /\ env = "unix"
    /\ disk = [f \in Folders |-> [mbox |-> NoFile, idx |-> NoFile]]
    /\ wr = [f \in Folders |-> NoHandle]
    /\ rd = ClosedReader
    /\ rall = NoRall
    /\ last = [op |-> "none", ok |-> TRUE]
    /\ appended = [f \in Folders |-> <<>>]
    /\ crashed = FALSE
    /\ remote = [f \in Folders |-> EmptyMailbox]
    /\ proc = IdleProc
    /\ hist = NoHist
    /\ fetch = NoFetch
    /\ \E folders \in HistoFolders, numBins \in 1..3, binStrideBytes \in 1..2 :
          fn = [op |-> "none", folders |-> folders, numBins |-> numBins,
                binStrideBytes |-> binStrideBytes,
                res |-> [panic |-> FALSE, bins |-> <<>>]]

CallCmdHisto ==
    /\ fn.op = "none"
    /\ fn' = [fn EXCEPT !.op = "cmdHisto",
                        !.res = cmdHisto(fn.folders, fn.numBins,
                                         fn.binStrideBytes)]
    /\ UNCHANGED otherVars

NextHisto == CallCmdHisto

SpecHisto == InitHisto /\ [][NextHisto]_vars

----------------------------------------------------------------------------
(* The commands: what one call computes *)

\* -R: the number of attempts main makes (the flag's default)
Retries == 3

\* Invocations of the program in one behaviour
MaxRuns == 2
\* UIDs the server gives out in one behaviour
MaxMsgs == 2

\* The messages that arrive in the account: one without a sender address
\* whose text is a Received header with a date, one with an empty text
Deliverable ==
    { [from |-> <<>>,    body |-> <<"R">>],
      [from |-> <<"x">>, body |-> <<>>] }

\* The command lines: the command, -m, -f and -r, the list split at the commas
RunInputs ==
    { [cmd |-> c, months |-> 24, force |-> FALSE, restrict |-> r] :
          c \in {"query", "backup", "restore"}, r \in {<<>>, <<"B">>} }
    \cup { [cmd |-> "delete", months |-> m, force |-> FALSE, restrict |-> <<>>] :
               m \in {-1, 24} }
    \cup { [cmd |-> "delete", months |-> 0, force |-> TRUE, restrict |-> <<>>],
           [cmd |-> "delete", months |-> 24, force |-> TRUE, restrict |-> <<"B">>] }

\* intersect(as, bs): the strings of as that are in bs, in the order of as
intersect(as, bs) ==
    SelectSeq(as, LAMBDA a : \E i \in 1..Len(bs) : bs[i] = a)

\* cmdRemote: the folder names handed to the command
Restricted(folderNames, restrictToFolderNames) ==
    IF Len(restrictToFolderNames) > 0
    THEN intersect(folderNames, restrictToFolderNames)
    ELSE folderNames

\* What reader.ReadString returns at the prompt of delete: the line the
\* user typed with its newline, or nothing at the end of the input
Answers ==
    { <<"y", "\n">>, <<" ", "Y", " ", "\n">>, <<"n", "\n">>,
      <<"y", "e", "s", "\n">>, <<>> }

WhiteSpace == {" ", "\t", "\r", "\n"}

RECURSIVE TrimLeft(_)
TrimLeft(s) ==
    IF s # <<>> /\ Head(s) \in WhiteSpace THEN TrimLeft(Tail(s)) ELSE s

RECURSIVE TrimRight(_)
TrimRight(s) ==
    IF s # <<>> /\ s[Len(s)] \in WhiteSpace
    THEN TrimRight(SubSeq(s, 1, Len(s) - 1)) ELSE s

\* strings.TrimSpace
TrimSpace(s) == TrimRight(TrimLeft(s))

\* The variables no step of the program changes
storeVars == <<rd, rall, last, crashed, fn, fetch>>

\* Whether the local storage directory exists: MkdirAll creates it with the
\* first folder
DirExists == \E f \in Folders : disk[f].mbox.exists \/ disk[f].idx.exists

\* The end of the text of the error os.Open returns for a missing file
OpenErrText ==
    IF env = "windows"
    THEN IF DirExists THEN "The system cannot find the file specified."
         ELSE "The system cannot find the path specified."
    ELSE "no such file or directory"

\* The two endings cmdQuery takes for "there is no local folder"
NotFoundTexts == { "The system cannot find the file specified.",
                   "The system cannot find the path specified." }

\* cmdQuery's results before the first folder
NoQuery ==
    [err |-> "nil", folders |-> <<>>, totalMsgs |-> 0, filteredMsgs |-> 0,
     filteredSize |-> 0]

\* return nil, 0, 0, err
QueryFailed(err) == [NoQuery EXCEPT !.err = err]

\* The end of the loop body: the folder and its counts are added
QueryAdd(f, listed, acc) ==
    [acc EXCEPT !.folders = Append(@, f),
                !.totalMsgs = @ + listed,
                !.filteredMsgs = @ + Len(f.Messages),
                !.filteredSize = @ + f.Size]

\* f.Messages, f.Size = f.FilterOut(lfm)
\* The assignment without its second half: the list is replaced, the size
\* is the one of the unfiltered list
FilteredMetaKeepsSize(f, kept) == [f EXCEPT !.Messages = kept.Messages]

FilteredMeta(f, kept) == [f EXCEPT !.Messages = kept.Messages, !.Size = kept.Size]

\* The branch of cmdQuery for a local folder that opened: r is what
\* ReadAllIndex returned
QueryFiltered(f, r, acc) ==
    IF r.err # NoErr THEN QueryFailed("index")
    ELSE QueryAdd(FilteredMeta(f, FilterOut(f, r.f)), Len(f.Messages), acc)

\* cmdQuery from OpenLocalFolderReadOnly on: f is the remote listing
QueryLocal(name, f, acc) ==
    IF FoundLocal(disk[name])
    THEN QueryFiltered(f, ReadAllIndex(NewReader(name), disk[name].idx.data), acc)
    ELSE IF OpenErrText \in NotFoundTexts
    THEN QueryAdd(f, Len(f.Messages), acc)
    ELSE QueryFailed(OpenErrText)

\* One round of cmdQuery's loop; fails: the server fails the listing
QueryFolder(name, fails, acc) ==
    IF fails THEN QueryFailed("imap")
    ELSE QueryLocal(name, NewImapFolderMeta(name, remote[name]), acc)

RECURSIVE QueryLoop(_, _, _)
QueryLoop(names, failAt, acc) ==
    IF names = <<>> \/ acc.err # "nil" THEN acc
    ELSE QueryLoop(Tail(names), failAt - 1,
                   QueryFolder(Head(names), failAt = 1, acc))

\* cmdQuery(c, folderNames); the server fails at folder failAt (0: never)
cmdQuery(folderNames, failAt) == QueryLoop(folderNames, failAt, NoQuery)

\* GetLocalFolderNames: the names with an index file, sorted
GetLocalFolderNames == SelectSeq(FolderOrder, LAMBDA f : disk[f].idx.exists)

RECURSIVE LocalQueryLoop(_)
LocalQueryLoop(names) ==
    IF names = <<>> THEN "nil"
    ELSE IF ~FoundLocal(disk[Head(names)]) THEN OpenErrText
    ELSE IF ReadAllIndex(NewReader(Head(names)),
                         disk[Head(names)].idx.data).err # NoErr
    THEN "index"
    ELSE LocalQueryLoop(Tail(names))

\* cmdLocalQuery: the error it returns
cmdLocalQuery ==
    IF ~DirExists THEN "read dir" ELSE LocalQueryLoop(GetLocalFolderNames)

\* The messages the server sends for the sequence numbers of f.Messages
Fetched(f, rf) ==
    LET seqs == SelectSeq([i \in 1..Len(f.Messages) |-> f.Messages[i].SeqNum],
                          LAMBDA s : s <= Len(rf.Messages))
    IN  [i \in 1..Len(seqs) |-> rf.Messages[seqs[i]]]

RECURSIVE AppendAll(_, _, _)
\* The loop of DownloadTo over the messages received: e holds the files and
\* the handle
AppendAll(e, uidValidity, msgs) ==
    IF msgs = <<>> THEN e
    ELSE AppendAll(AppendEffect(e.d, e.lf, uidValidity, Head(msgs).Uid,
                                Head(msgs).from, Head(msgs).body),
                   uidValidity, Tail(msgs))

\* The Append calls made for the messages got
AsAppends(got, uidValidity) ==
    [i \in 1..Len(got) |-> [UidValidity |-> uidValidity, Uid |-> got[i].Uid,
                            from |-> got[i].from, body |-> got[i].body]]

\* DownloadTo once the mailbox is selected; the server sends k of the
\* messages and, if that is not all of them, fails the fetch
Downloaded(msgs, k, uidValidity, d) ==
    [err |-> IF k < Len(msgs) THEN "imap" ELSE "nil",
     e   |-> AppendAll([d |-> d, lf |-> NewWriter], uidValidity, SubSeq(msgs, 1, k)),
     got |-> AsAppends(SubSeq(msgs, 1, k), uidValidity)]

\* Mutant of DownloadTo: the validity of the selected mailbox is not compared
DownloadToAnyValidity(f, rf, d, k) ==
    Downloaded(Fetched(f, rf), k, rf.UidValidity, d)

\* ImapFolderMeta.DownloadTo(c, lf, bar) on the files d just opened
DownloadTo(f, rf, d, k) ==
    IF rf.UidValidity # f.UidValidity
    THEN [err |-> "UidValidity changed", e |-> [d |-> d, lf |-> NewWriter],
          got |-> <<>>]
    ELSE Downloaded(Fetched(f, rf), k, rf.UidValidity, d)

\* The deferred lf.Close() calls of cmdBackup: every handle is flushed
ClosedDisk(dk, w) ==
    [f \in Folders |->
        IF w[f].open THEN [dk[f] EXCEPT !.idx.data = IdxAfterClose(w[f], @)]
        ELSE dk[f]]

\* cmdDelete up to the loop over the folders: the error it returns
\* cmdDelete without the prompt
cmdDeleteErrNoPrompt(months, force, yn) ==
    IF months < 0 THEN "months must be >= 0" ELSE "nil"

cmdDeleteErr(months, force, yn) ==
    IF months < 0 THEN "months must be >= 0"
    ELSE IF ~force /\ TrimSpace(yn) # <<"y">> /\ TrimSpace(yn) # <<"Y">>
    THEN "user did not confirm"
    ELSE "nil"

\* The line cmdDelete has read: none when the prompt is not reached
LineRead(months, force, yn) == IF months < 0 \/ force THEN <<>> ELSE yn

\* The messages left when those at the sequence numbers ids are expunged
Expunged(msgs, ids) ==
    LET keep == SelectSeq([i \in 1..Len(msgs) |-> i], LAMBDA i : i \notin ids)
    IN  [k \in 1..Len(keep) |-> msgs[keep[k]]]

\* DeleteMessagesBefore: ids is what the search for older messages returned
DeleteMessagesBefore(rf, ids) == [rf EXCEPT !.Messages = Expunged(@, ids)]

\* The loop of cmdDelete over folderNames
DeletedIn(folderNames, old) ==
    [f \in Folders |->
        IF \E i \in 1..Len(folderNames) : folderNames[i] = f
        THEN DeleteMessagesBefore(remote[f], old[f])
        ELSE remote[f]]

\* What the search of each mailbox may return: all its messages are older
\* than the limit, or none is
OldChoices ==
    { [f \in Folders |-> IF f \in S THEN 1..Len(remote[f].Messages) ELSE {}] :
          S \in SUBSET Folders }

\* LocalFolder.ReadMessage(mm, buf): the Size bytes of the archive at Offset;
\* fewer bytes than Size are an error
ReadMessage(mbox, mm) ==
    [ok    |-> Len(ReadAt(mbox, mm.Offset, mm.Size)) = mm.Size,
     bytes |-> ReadAt(mbox, mm.Offset, mm.Size)]

\* GetMessageReceived(r): the time at the end of the first Received header.
\* In a message text "R" stands for a Received header that ends in a date of
\* the expected form, "r" for one without a semicolon, "u" for one whose
\* date does not parse; any other byte belongs to no Received header.
\* On an error the time is time.Time{}
ReceivedOf(headers) ==
    IF headers = <<>> THEN [err |-> "Missing Received field", t |-> "zero"]
    ELSE IF Head(headers) = "R" THEN [err |-> "nil", t |-> "received"]
    ELSE IF Head(headers) = "r" THEN [err |-> "lacks semicolon", t |-> "zero"]
    ELSE [err |-> "parse date", t |-> "zero"]

GetMessageReceived(bytes) ==
    ReceivedOf(SelectSeq(bytes, LAMBDA c : c \in {"R", "r", "u"}))

\* c.Append(f.Name, nil, receivedTime, msgBuffer): the server stores the text
\* under the mailbox's next UID
Uploaded(rf, bytes) ==
    [rf EXCEPT !.Messages = Append(@, [Uid |-> rf.UidNext, from |-> <<>>,
                                       body |-> bytes]),
               !.UidNext = @ + 1]

\* What the server is sent for the record mm: its text and receivedTime
UploadOf(name, mm, bytes, received) ==
    [folder |-> name, UidValidity |-> mm.UidValidity, Uid |-> mm.Uid,
     body |-> bytes, time |-> received.t]

\* The round with an error of GetMessageReceived returned like the others
UploadOneAbortsUndated(st, name, mm, m) ==
    IF ~m.ok THEN [st EXCEPT !.err = "read"]
    ELSE IF GetMessageReceived(m.bytes).err # "nil"
    THEN [st EXCEPT !.err = GetMessageReceived(m.bytes).err]
    ELSE [st EXCEPT !.rf = Uploaded(@, m.bytes),
                    !.ups = Append(@, UploadOf(name, mm, m.bytes,
                                               GetMessageReceived(m.bytes)))]

\* One round of the upload loop: m is what ReadMessage returned; an error
\* of GetMessageReceived is logged and the message is sent all the same
UploadOne(st, name, mm, m) ==
    IF ~m.ok THEN [st EXCEPT !.err = "read"]
    ELSE [st EXCEPT !.rf = Uploaded(@, m.bytes),
                    !.ups = Append(@, UploadOf(name, mm, m.bytes,
                                               GetMessageReceived(m.bytes)))]

RECURSIVE UploadAll(_, _, _, _)
UploadAll(st, name, mbox, msgs) ==
    IF msgs = <<>> \/ st.err # "nil" THEN st
    ELSE UploadAll(UploadOne(st, name, Head(msgs), ReadMessage(mbox, Head(msgs))),
                   name, mbox, Tail(msgs))

\* The text of the server's NO when a mailbox that does not exist is
\* selected.  cmdRestore looks for the first one; RFC 3501 fixes no text,
\* and other servers answer with another one
NoMailboxTexts == {"Mailbox doesn't exist", "Unknown Mailbox"}

\* The account once the uploads u of folder name are done
MergeUpload(name, st, u) ==
    [st EXCEPT !.err = u.err, !.remote[name] = u.rf, !.uploads = u.ups]

UploadFolder(f, st) ==
    MergeUpload(f.Name, st,
                UploadAll([err |-> "nil", rf |-> st.remote[f.Name],
                           ups |-> st.uploads],
                          f.Name, disk[f.Name].mbox.data, f.Messages))

RECURSIVE RestoreUpload(_, _)
\* The second loop of cmdRestore
RestoreUpload(folders, st) ==
    IF folders = <<>> \/ st.err # "nil" THEN st
    ELSE RestoreUpload(Tail(folders), UploadFolder(Head(folders), st))

\* One round of the first loop of cmdRestore once ReadAllIndex returned r:
\* a mailbox the server does not have is created when the server's answer
\* starts with the expected text, and the folder's records the mailbox has
\* not are kept
RestoreListed(name, r, st, text) ==
    IF r.err # NoErr THEN [st EXCEPT !.err = "index"]
    ELSE IF ~st.remote[name].exists /\ text # "Mailbox doesn't exist"
    THEN [st EXCEPT !.err = text]
    ELSE [st EXCEPT
             !.remote[name].exists = TRUE,
             !.folders = Append(@, FilteredMeta(r.f,
                            FilterOut(r.f, NewImapFolderMeta(name, st.remote[name]))))]

RestoreList(name, st, text) ==
    IF ~FoundLocal(disk[name]) THEN [st EXCEPT !.err = OpenErrText]
    ELSE RestoreListed(name, ReadAllIndex(NewReader(name), disk[name].idx.data),
                       st, text)

RECURSIVE RestoreListAll(_, _, _)
\* The first loop of cmdRestore
RestoreListAll(names, st, text) ==
    IF names = <<>> \/ st.err # "nil" THEN st
    ELSE RestoreListAll(Tail(names), RestoreList(Head(names), st, text), text)

\* cmdRestore returns err before the first loop ends
RestoreFailed(err, r) ==
    [err |-> err, remote |-> r, uploads |-> <<>>, folders |-> <<>>]

RestoreAfterList(st) ==
    IF st.err # "nil" THEN RestoreFailed(st.err, st.remote)
    ELSE RestoreUpload(st.folders, st)

\* cmdRestore(c): the error it returns, the account afterwards, what was
\* sent and the folders listed; fails: the server fails the first listing;
\* text: what the server says of a mailbox it does not have
cmdRestore(fails, text) ==
    IF ~DirExists THEN RestoreFailed("read dir", remote)
    ELSE IF fails THEN RestoreFailed("imap", remote)
    ELSE RestoreAfterList(
             RestoreListAll(GetLocalFolderNames,
                            [err |-> "nil", remote |-> remote,
                             uploads |-> <<>>, folders |-> <<>>],
                            text))

----------------------------------------------------------------------------
(* The program: main, its retry loop and the commands as steps *)

PreparedFile == [exists |-> TRUE, data |-> <<>>, writable |-> TRUE]

\* The local storage is empty, or holds empty files the user may write.
\* Privileges make no difference to files the user may write, and on Unix
\* the program gets to create no other (QueryLocal)
Init ==
    /\ env \in {"windows", "unix"}
    /\ disk \in { [f \in Folders |-> [mbox |-> NoFile, idx |-> NoFile]],
                  [f \in Folders |-> [mbox |-> PreparedFile, idx |-> PreparedFile]] }
    /\ wr = [f \in Folders |-> NoHandle]
    /\ rd = ClosedReader
    /\ rall = NoRall
    /\ last = [op |-> "none", ok |-> TRUE]
    /\ appended = [f \in Folders |-> <<>>]
    /\ crashed = FALSE
    /\ remote = [f \in Folders |-> EmptyMailbox]
    /\ proc = IdleProc
    /\ hist = NoHist
    /\ fn = NoCall
    /\ fetch = NoFetch

\* os.Exit(status), or main returns (status 0)
Exited(p, status) == [IdleProc EXCEPT !.cmd = p.cmd, !.exit = status]

\* main with lquery: completeFlagsLocal, cmdLocalQuery, log.Fatal on error
MainLocal ==
    /\ proc.pc = "idle"
    /\ hist.runs < MaxRuns
    /\ proc' = Exited([cmd |-> "lquery"], IF cmdLocalQuery = "nil" THEN 0 ELSE 1)
    /\ hist' = [hist EXCEPT !.runs = @ + 1, !.outcomes = <<>>]
    /\ UNCHANGED <<env, disk, wr, appended, remote, storeVars>>

\* main with a remote command up to the retry loop: completeFlagsRemote
\* refuses a negative -m
MainRemote(in) ==
    /\ proc.pc = "idle"
    /\ hist.runs < MaxRuns
    /\ proc' = IF in.months < 0 THEN Exited(in, 1)
               ELSE [IdleProc EXCEPT !.pc = "loop", !.cmd = in.cmd,
                                     !.months = in.months, !.force = in.force,
                                     !.restrict = in.restrict]
    /\ hist' = [hist EXCEPT !.runs = @ + 1, !.outcomes = <<>>]
    /\ UNCHANGED <<env, disk, wr, appended, remote, storeVars>>

\* The history when cmdRemote is entered
AttemptHist ==
    [hist EXCEPT !.changed = FALSE, !.second = hist.stable, !.nAppends = 0,
                 !.uploads = <<>>]

\* The history when cmdRemote returns err
Returned(h, err, remoteChanged) ==
    [h EXCEPT !.outcomes = Append(@, err = "nil"),
              !.changed = @ \/ remoteChanged,
              !.stable = IF remoteChanged THEN FALSE
                         ELSE IF proc.cmd = "backup" /\ err = "nil" /\ ~h.changed
                         THEN TRUE
                         ELSE @]

\* cmdRemote: DialTLS, Login or ListFolders fails
ConnectFail ==
    /\ proc.pc = "loop"
    /\ proc' = [proc EXCEPT !.pc = "returned", !.err = "imap"]
    /\ hist' = Returned(AttemptHist, "imap", FALSE)
    /\ UNCHANGED <<env, disk, wr, appended, remote, storeVars>>

\* The program's locals after cmdQuery returned q
AfterQuery(p, q) ==
    [p EXCEPT !.err = q.err, !.folders = q.folders, !.totalMsgs = q.totalMsgs,
              !.filteredMsgs = q.filteredMsgs, !.filteredSize = q.filteredSize]

\* The local files once the loop of cmdQuery has opened the folders named
QueriedDisk(folderNames) ==
    [f \in Folders |->
        IF \E i \in 1..Len(folderNames) : folderNames[i] = f
        THEN OpenReadOnlyFiles(disk[f])
        ELSE disk[f]]

\* cmdRemote with query
CmdQuery ==
    /\ proc.pc = "loop"
    /\ proc.cmd = "query"
    /\ \E failAt \in 0..Len(Restricted(ListFolders, proc.restrict)) :
          proc' = [AfterQuery(proc, cmdQuery(Restricted(ListFolders, proc.restrict),
                                             failAt))
                       EXCEPT !.pc = "returned"]
    /\ hist' = Returned(AttemptHist, proc'.err, FALSE)
    /\ disk' = QueriedDisk(Restricted(ListFolders, proc.restrict))
    /\ UNCHANGED <<env, wr, appended, remote, storeVars>>

\* cmdBackup after cmdQuery returned q: it returns on an error and when
\* nothing is to be downloaded
BackupAfterQuery(p, q) ==
    [AfterQuery(p, q) EXCEPT
        !.pc = IF q.err # "nil" \/ q.filteredMsgs = 0 \/ q.filteredSize = 0
               THEN "returned" ELSE "download",
        !.j = 1]

\* cmdRemote with backup, up to the download loop
CmdBackupQuery ==
    /\ proc.pc = "loop"
    /\ proc.cmd = "backup"
    /\ \E failAt \in 0..Len(Restricted(ListFolders, proc.restrict)) :
          proc' = BackupAfterQuery(proc, cmdQuery(Restricted(ListFolders,
                                                             proc.restrict),
                                                  failAt))
    /\ hist' = IF proc'.pc = "returned"
               THEN Returned(AttemptHist, proc'.err, FALSE)
               ELSE AttemptHist
    /\ UNCHANGED <<env, disk, wr, appended, remote, storeVars>>

\* The end of one round of cmdBackup's download loop, with the files dk, the
\* handles w and n more messages stored: on an error and after the last
\* folder cmdBackup returns and the deferred Close calls run
DownloadDone(dk, w, app, err, n) ==
    IF err # "nil" \/ proc.j = Len(proc.folders)
    THEN /\ disk' = ClosedDisk(dk, w)
         /\ wr' = [f \in Folders |-> NoHandle]
         /\ appended' = app
         /\ proc' = [proc EXCEPT !.pc = "returned", !.err = err]
         /\ hist' = Returned([hist EXCEPT !.nAppends = @ + n], err, FALSE)
    ELSE /\ disk' = dk
         /\ wr' = w
         /\ appended' = app
         /\ proc' = [proc EXCEPT !.j = @ + 1]
         /\ hist' = [hist EXCEPT !.nAppends = @ + n]

\* The round once DownloadTo returned r for folder name
DownloadStored(name, r) ==
    DownloadDone([disk EXCEPT ![name] = r.e.d],
                 [wr EXCEPT ![name] = r.e.lf],
                 [appended EXCEPT ![name] = @ \o r.got],
                 r.err, Len(r.got))

\* The round once OpenLocalFolderAppend returned o for folder f
DownloadOpened(f, o) ==
    IF ~o.ok
    THEN DownloadDone([disk EXCEPT ![f.Name] = o.d], wr, appended,
                      "open for append", 0)
    ELSE \E k \in 0..Len(Fetched(f, remote[f.Name])) :
            DownloadStored(f.Name, DownloadTo(f, remote[f.Name], o.d, k))

DownloadFolder(f) ==
    IF Len(f.Messages) = 0
    THEN DownloadDone(disk, wr, appended, "nil", 0)
    ELSE DownloadOpened(f, OpenAppendFiles(disk[f.Name]))

\* One round of the download loop of cmdBackup
CmdBackupDownload ==
    /\ proc.pc = "download"
    /\ DownloadFolder(proc.folders[proc.j])
    /\ UNCHANGED <<env, remote, storeVars>>

\* The program and the history when cmdRestore returned r
RestoreReturned(p, r) ==
    [p EXCEPT !.pc = "returned", !.err = r.err, !.folders = r.folders]

\* cmdRemote once cmdRestore returned r
RestoreStep(r) ==
    /\ UidsGivenIn(r.remote, FolderOrder) <= 2 * MaxMsgs
    /\ remote' = r.remote
    /\ proc' = RestoreReturned(proc, r)
    /\ hist' = Returned([AttemptHist EXCEPT !.uploads = r.uploads],
                        r.err, r.remote # remote)

\* cmdRemote with restore
CmdRestore ==
    /\ proc.pc = "loop"
    /\ proc.cmd = "restore"
    /\ \E fails \in BOOLEAN, text \in NoMailboxTexts :
          RestoreStep(cmdRestore(fails, text))
    /\ UNCHANGED <<env, disk, wr, appended, storeVars>>

\* cmdRemote with delete
CmdDelete ==
    /\ proc.pc = "loop"
    /\ proc.cmd = "delete"
    /\ \E yn \in Answers, old \in OldChoices :
          /\ proc' = [proc EXCEPT !.pc = "returned",
                                  !.err = cmdDeleteErr(proc.months, proc.force, yn),
                                  !.yn = LineRead(proc.months, proc.force, yn)]
          /\ remote' = IF proc'.err = "nil" THEN DeletedIn(Restricted(ListFolders, proc.restrict),
                                                           old)
                       ELSE remote
    /\ hist' = Returned(AttemptHist, proc'.err, remote' # remote)
    /\ UNCHANGED <<env, disk, wr, appended, storeVars>>

\* The body of main's loop after cmdRemote returned, i++ and the loop test
MainLoop ==
    /\ proc.pc = "returned"
    /\ proc' = IF proc.err = "nil"
               THEN IF proc.i + 1 < Retries
                    THEN [IdleProc EXCEPT !.pc = "loop", !.cmd = proc.cmd,
                                          !.months = proc.months,
                                          !.force = proc.force,
                                          !.restrict = proc.restrict,
                                          !.i = proc.i + 1]
                    ELSE Exited(proc, 1)
               ELSE Exited(proc, 0)
    /\ UNCHANGED <<env, disk, wr, appended, remote, hist, storeVars>>

\* The mailbox after message m arrived
Delivered(rf, m) ==
    [rf EXCEPT !.Messages = Append(@, [Uid |-> rf.UidNext, from |-> m.from,
                                       body |-> m.body]),
               !.UidNext = @ + 1]

\* A message arrives in mailbox f, before a run or while cmdBackup downloads
Deliver(f, m) ==
    /\ UidsGiven < MaxMsgs
    /\ remote[f].exists
    /\ proc.pc = "download" \/ (proc.pc = "idle" /\ hist.runs < MaxRuns)
    /\ remote' = [remote EXCEPT ![f] = Delivered(@, m)]
    /\ hist' = [hist EXCEPT !.changed = TRUE, !.stable = FALSE]
    /\ UNCHANGED <<env, disk, wr, appended, proc, storeVars>>

\* Between two runs, after a backup that stored all there was, the user
\* removes mailbox f with another client.  The
\* server keeps the mailbox's validity and UID counter for a later mailbox
\* of the name, which RFC 3501 allows as long as no UID is given out twice
RemoveMailbox(f) ==
    /\ proc.pc = "idle"
    /\ hist.runs > 0
    /\ hist.runs < MaxRuns
    /\ hist.stable
    /\ remote[f].exists
    /\ remote' = [remote EXCEPT ![f].exists = FALSE, ![f].Messages = <<>>]
    /\ hist' = [hist EXCEPT !.changed = TRUE, !.stable = FALSE]
    /\ UNCHANGED <<env, disk, wr, appended, proc, storeVars>>

Next ==
    \/ MainLocal
    \/ \E in \in RunInputs : MainRemote(in)
    \/ ConnectFail
    \/ CmdQuery
    \/ CmdBackupQuery
    \/ CmdBackupDownload
    \/ CmdRestore
    \/ CmdDelete
    \/ MainLoop
    \/ \E f \in Folders, m \in Deliverable : Deliver(f, m)
    \/ \E f \in Folders : RemoveMailbox(f)

Spec == Init /\ [][Next]_vars

----------------------------------------------------------------------------
(* restore on its own: a run that starts from a folder a backup has stored *)

\* The texts of the stored messages: with a Received header that ends in a
\* date, with one without a semicolon, with one whose date does not parse,
\* without one, and the empty text
UploadTexts == { <<"R">>, <<"r">>, <<"u">>, <<"a">>, <<>> }

\* The lists of texts a backup can have stored: cmdBackup stores nothing
\* when the sizes add up to zero
RECURSIVE TextsSize(_)
TextsSize(ts) == IF ts = <<>> THEN 0 ELSE Len(Head(ts)) + TextsSize(Tail(ts))

StoredTexts ==
    { ts \in UNION { [1..k -> UploadTexts] : k \in 0..MaxMsgs } :
          ts = <<>> \/ TextsSize(ts) > 0 }

\* The messages of the texts ts as the server listed them
AsDelivered(ts) ==
    [i \in 1..Len(ts) |-> [Uid |-> i, from |-> <<>>, body |-> ts[i]]]

\* The files of a folder after OpenLocalFolderAppend, the Append calls e
\* and Close
StoredFiles(e) == [e.d EXCEPT !.idx.data = IdxAfterClose(e.lf, @)]

\* The local folder once a backup has stored the messages msgs
StoredFolder(msgs) ==
    IF msgs = <<>> THEN [mbox |-> NoFile, idx |-> NoFile]
    ELSE StoredFiles(AppendAll([d  |-> [mbox |-> CreatedFile, idx |-> CreatedFile],
                                lf |-> NewWriter],
                               EmptyMailbox.UidValidity, msgs))

\* A restore starts; folder A holds what a backup stored, and afterwards
\* the messages were deleted from the mailbox, or the mailbox was removed
InitRestore ==
    /\ env = "unix"
    /\ \E ts \in StoredTexts :
          /\ disk = [f \in Folders |->
                        IF f \in StoreFolders THEN StoredFolder(AsDelivered(ts))
                        ELSE [mbox |-> NoFile, idx |-> NoFile]]
          /\ appended = [f \in Folders |->
                            IF f \in StoreFolders
                            THEN AsAppends(AsDelivered(ts), EmptyMailbox.UidValidity)
                            ELSE <<>>]
          /\ \E there \in BOOLEAN :
                remote = [f \in Folders |->
                             IF f \in StoreFolders
                             THEN [EmptyMailbox EXCEPT !.exists = there,
                                                       !.UidNext = Len(ts) + 1]
                             ELSE EmptyMailbox]
    /\ wr = [f \in Folders |-> NoHandle]
    /\ rd = ClosedReader
    /\ rall = NoRall
    /\ last = [op |-> "none", ok |-> TRUE]
    /\ crashed = FALSE
    /\ proc = [IdleProc EXCEPT !.pc = "loop", !.cmd = "restore", !.months = 24]
    /\ hist = [NoHist EXCEPT !.runs = 1]
    /\ fn = NoCall
    /\ fetch = NoFetch

NextRestore == ConnectFail \/ CmdRestore \/ MainLoop

SpecRestore == InitRestore /\ [][NextRestore]_vars

----------------------------------------------------------------------------
(* backup on its own: runs that start from a folder an earlier backup has
   stored, while other clients and the server change the mailbox *)

\* The messages the mailbox holds when the first run starts
FirstMessages(n) == [i \in 1..n |-> [Uid |-> i, from |-> <<>>, body |-> <<"a">>]]

\* Folder A holds the first k of the mailbox's n messages; the files of a
\* folder that holds none were prepared empty by the user
InitBackup ==
    /\ env \in {"unix", "unix-root"}
    /\ \E n \in 1..(MaxMsgs + 1) :
          /\ remote = [f \in Folders |->
                          IF f \in StoreFolders
                          THEN [EmptyMailbox EXCEPT !.Messages = FirstMessages(n),
                                                    !.UidNext = n + 1]
                          ELSE EmptyMailbox]
          /\ \E k \in 0..n :
                /\ disk = [f \in Folders |->
                              IF f \in StoreFolders /\ k > 0
                              THEN StoredFolder(FirstMessages(k))
                              ELSE [mbox |-> PreparedFile, idx |-> PreparedFile]]
                /\ appended = [f \in Folders |->
                                  IF f \in StoreFolders
                                  THEN AsAppends(FirstMessages(k),
                                                 EmptyMailbox.UidValidity)
                                  ELSE <<>>]
    /\ wr = [f \in Folders |-> NoHandle]
    /\ rd = ClosedReader
    /\ rall = NoRall
    /\ last = [op |-> "none", ok |-> TRUE]
    /\ crashed = FALSE
    /\ proc = [IdleProc EXCEPT !.pc = "loop", !.cmd = "backup", !.months = 24]
    /\ hist = [NoHist EXCEPT !.runs = 1]
    /\ fn = NoCall
    /\ fetch = NoFetch

\* Between the listing and the download another client expunges the oldest
\* message of mailbox f: the messages after it move down by one sequence
\* number
Expunge(f) ==
    /\ proc.pc = "download"
    /\ remote[f].Messages # <<>>
    /\ remote' = [remote EXCEPT ![f].Messages = Tail(@)]
    /\ hist' = [hist EXCEPT !.changed = TRUE, !.stable = FALSE]
    /\ UNCHANGED <<env, disk, wr, appended, proc, storeVars>>

\* Between the listing and the download a message arrives in mailbox f
Arrive(f) ==
    /\ proc.pc = "download"
    /\ UidsGiven < 2 * MaxMsgs
    /\ remote' = [remote EXCEPT ![f] = Delivered(@, [from |-> <<>>,
                                                     body |-> <<"a">>])]
    /\ hist' = [hist EXCEPT !.changed = TRUE, !.stable = FALSE]
    /\ UNCHANGED <<env, disk, wr, appended, proc, storeVars>>

\* Before an attempt connects, or between the listing and the download, the
\* server gives mailbox f a new validity stamp and numbers its messages anew
Revalidate(f) ==
    /\ proc.pc \in {"loop", "download"}
    /\ remote[f].UidValidity = EmptyMailbox.UidValidity
    /\ remote' = [remote EXCEPT
                     ![f].UidValidity = @ + 1,
                     ![f].Messages = [i \in 1..Len(@) |-> [@[i] EXCEPT !.Uid = i]],
                     ![f].UidNext = Len(remote[f].Messages) + 1]
    /\ hist' = [hist EXCEPT !.changed = TRUE, !.stable = FALSE]
    /\ UNCHANGED <<env, disk, wr, appended, proc, storeVars>>

NextBackup ==
    \/ ConnectFail
    \/ CmdBackupQuery
    \/ CmdBackupDownload
    \/ MainLoop
    \/ \E f \in StoreFolders : Expunge(f)
    \/ \E f \in StoreFolders : Arrive(f)
    \/ \E f \in StoreFolders : Revalidate(f)

SpecBackup == InitBackup /\ [][NextBackup]_vars

----------------------------------------------------------------------------
(* One fetch: the task that runs c.Fetch and the loop that drains the
   channel, in NewImapFolderMeta ("list") and in DownloadTo ("download") *)

\* All variables but fetch
notFetch ==
    <<env, disk, wr, rd, rall, last, appended, crashed, remote, proc, hist, fn>>

\* make(chan *imap.Message, 16)
ChanCap == 16

\* The most messages the server sends in one fetch
MaxFetch == ChanCap + 2

\* The k-th message the server sends
FetchedMessage(k) ==
    [Uid |-> k, from |-> <<>>,
     body |-> IF k % 2 = 1 THEN <<"a">> ELSE <<"b", "F">>]

\* The task is started.  DownloadTo runs on the handle of folder A, which
\* cmdBackup has just opened for append
InitFetch ==
    /\ env = "unix"
    /\ rd = ClosedReader
    /\ rall = NoRall
    /\ last = [op |-> "none", ok |-> TRUE]
    /\ appended = [f \in Folders |-> <<>>]
    /\ crashed = FALSE
    /\ remote = [f \in Folders |-> EmptyMailbox]
    /\ proc = IdleProc
    /\ hist = NoHist
    /\ fn = NoCall
    /\ \E kind \in {"list", "download"}, n \in 0..MaxFetch :
          /\ fetch = [NoFetch EXCEPT !.kind = kind, !.n = n,
                                     !.producer = "fetch", !.consumer = "range"]
          /\ disk = [f \in Folders |->
                        IF kind = "download" /\ f \in StoreFolders
                        THEN [mbox |-> CreatedFile, idx |-> CreatedFile]
                        ELSE [mbox |-> NoFile, idx |-> NoFile]]
          /\ wr = [f \in Folders |->
                      IF kind = "download" /\ f \in StoreFolders
                      THEN NewWriter ELSE NoHandle]

\* c.Fetch sends the next message: the send blocks while the channel is full
ProducerSend ==
    /\ fetch.producer = "fetch"
    /\ fetch.sent < fetch.n
    /\ Len(fetch.messages) < ChanCap
    /\ fetch' = [fetch EXCEPT !.messages = Append(@, fetch.sent + 1),
                              !.sent = @ + 1]
    /\ UNCHANGED notFetch

\* c.Fetch returns err and closes the channel: nil after the last message,
\* an error at any point between two sends
ProducerReturn(err) ==
    /\ fetch.producer = "fetch"
    /\ err = "nil" => fetch.sent = fetch.n
    /\ fetch' = [fetch EXCEPT !.closed = TRUE, !.res = err,
                              !.producer = "result"]
    /\ UNCHANGED notFetch

\* done <- err: done has room for the one value
ProducerDone ==
    /\ fetch.producer = "result"
    /\ fetch' = [fetch EXCEPT !.done = Append(@, fetch.res),
                              !.producer = "exit"]
    /\ UNCHANGED notFetch

\* Mutant of Receive: the newest message of the channel is received
ReceiveNewest(messages) ==
    [msg  |-> messages[Len(messages)],
     rest |-> SubSeq(messages, 1, Len(messages) - 1)]

\* msg := range messages on a channel that holds a message
Receive(messages) == [msg |-> Head(messages), rest |-> Tail(messages)]

\* The loop body for msg ends without an error; DownloadTo has appended msg
ConsumerProcess ==
    /\ fetch.consumer = "range"
    /\ fetch.messages # <<>>
    /\ LET r == Receive(fetch.messages)
           m == FetchedMessage(r.msg)
       IN  /\ fetch' = [fetch EXCEPT !.messages = r.rest,
                                     !.got = Append(@, r.msg)]
           /\ IF fetch.kind = "download"
              THEN \E f \in StoreFolders :
                      LET e == AppendEffect(disk[f], wr[f],
                                            EmptyMailbox.UidValidity, m.Uid,
                                            m.from, m.body)
                      IN  /\ disk' = [disk EXCEPT ![f] = e.d]
                          /\ wr' = [wr EXCEPT ![f] = e.lf]
                          /\ appended' =
                                [appended EXCEPT ![f] =
                                    @ \o AsAppends(<<m>>, EmptyMailbox.UidValidity)]
              ELSE UNCHANGED <<disk, wr, appended>>
    /\ UNCHANGED <<env, rd, rall, last, crashed, remote, proc, hist, fn>>

\* The loop body of DownloadTo returns an error for msg: the progress bar,
\* a missing body, io.ReadAll or Append failed
ConsumerAbort ==
    /\ fetch.kind = "download"
    /\ fetch.consumer = "range"
    /\ fetch.messages # <<>>
    /\ fetch' = [fetch EXCEPT !.messages = Receive(@).rest,
                              !.consumer = "returned", !.aborted = TRUE,
                              !.err = "consumer"]
    /\ UNCHANGED notFetch

\* Mutant of RangeEnds: the loop ends as soon as the channel is empty
RangeEndsWhenEmpty(messages, closed) == messages = <<>>

\* for msg := range messages ends: the channel is closed and drained
RangeEnds(messages, closed) == messages = <<>> /\ closed

ConsumerRangeEnds ==
    /\ fetch.consumer = "range"
    /\ RangeEnds(fetch.messages, fetch.closed)
    /\ fetch' = [fetch EXCEPT !.consumer = "done"]
    /\ UNCHANGED notFetch

\* err := <-done, and the function returns it
ConsumerResult ==
    /\ fetch.consumer = "done"
    /\ fetch.done # <<>>
    /\ fetch' = [fetch EXCEPT !.done = Tail(@), !.err = Head(fetch.done),
                              !.consumer = "returned"]
    /\ UNCHANGED notFetch

NextFetch ==
    \/ ProducerSend
    \/ \E err \in {"nil", "imap"} : ProducerReturn(err)
    \/ ProducerDone
    \/ ConsumerProcess
    \/ ConsumerAbort
    \/ ConsumerRangeEnds
    \/ ConsumerResult

SpecFetch == InitFetch /\ [][NextFetch]_vars

\* The Go scheduler runs every task that can take a step; that the server
\* or the connection fails is not something fairness may force
FetchFairness ==
    /\ WF_vars(ProducerSend)
    /\ WF_vars(ProducerReturn("nil"))
    /\ WF_vars(ProducerDone)
    /\ WF_vars(ConsumerProcess \/ ConsumerAbort)
    /\ WF_vars(ConsumerRangeEnds)
    /\ WF_vars(ConsumerResult)

SpecFetchFair == SpecFetch /\ FetchFairness

----------------------------------------------------------------------------
(* Properties of the store *)

\* All bytes written to the index of folder f so far, flushed or not
IdxWritten(f) == disk[f].idx.data \o wr[f].buf

\* The scanned values vs are the record of the Append call a, and the archive
\* holds a's body at the recorded offset, right after a's delimiter line and
\* right before the blank separator line
RecordIs(vs, a, mbox) ==
        /\ Len(vs) = 4
        /\ vs[1] = a.UidValidity
        /\ vs[2] = a.Uid
        /\ vs[3] = Len(a.body)
        /\ ReadAt(mbox, vs[4], vs[3]) = a.body
        /\ vs[4] >= Len(Header(a.from))
        /\ ReadAt(mbox, vs[4] - Len(Header(a.from)), Len(Header(a.from)))
              = Header(a.from)
        /\ ReadAt(mbox, vs[4] + vs[3], 1) = <<"\n">>

\* The index line holds the record of the Append call a
RecordDescribes(line, a, mbox) == RecordIs(Sscanf(line), a, mbox)

\* C5: after any sequence of Append calls on a folder, over one or several
\* open/close cycles, the index holds one record per call, in order, whose
\* offset is the archive position of the first body byte (just after the
\* delimiter line), whose size leaves out the separator line, and the archive
\* bytes [offset, offset+size) are the appended body.
C5_IndexArchiveConsistent ==
    \A f \in Folders :
        LET lines == ScanLines(IdxWritten(f))
        IN  /\ Len(lines) = Len(appended[f])
            /\ \A k \in 1..Len(lines) :
                  RecordDescribes(lines[k], appended[f][k], disk[f].mbox.data)

\* A second open/close cycle has appended: the file holds the complete
\* records of the earlier cycle and the writer holds the one just appended
C5_Witness ==
    \E f \in Folders :
        /\ wr[f].open
        /\ last.op = "Append"
        /\ Len(appended[f]) >= 2
        /\ Len(ScanLines(wr[f].buf)) = 1
        /\ Len(ScanLines(disk[f].idx.data)) = Len(appended[f]) - 1
        /\ disk[f].idx.data[Len(disk[f].idx.data)] = "\n"

\* C3: N messages appended to a fresh folder, the folder closed and reopened
\* read-only: ReadAllIndex returns exactly N records in append order whose
\* (validity, uid, size) are the appended ones, size being the body's length.
C3_IndexRoundTrip ==
    (last.op = "ReadAllIndex" /\ rall.fresh) =>
        LET a == appended[rall.name]
            m == rall.f.Messages
        IN  /\ rall.err = NoErr
            /\ rall.f.ok
            /\ Len(m) = Len(a)
            /\ \A k \in 1..Len(a) :
                  /\ m[k].UidValidity = a[k].UidValidity
                  /\ m[k].Uid = a[k].Uid
                  /\ m[k].Size = Len(a[k].body)

C3_Witness ==
    /\ last.op = "ReadAllIndex"
    /\ rall.fresh
    /\ Len(rall.f.Messages) = MaxAppends
    /\ \E i, j \in 1..MaxAppends :
          rall.f.Messages[i].Size > rall.f.Messages[j].Size

\* C4: a stored message reads back as exactly the body appended with its
\* index record, whatever the order of message sizes.
C4_ReadsBackBody ==
    (last.op = "MboxScan" /\ last.ok) =>
        MboxText(rd) = appended[rd.Name][rd.scanned].body

\* The index file of f as an interruption may leave it: only complete lines,
\* each the record of an Append call whose body the archive holds in full at
\* the recorded offset
IndexOnDiskSound(f) ==
    LET idx   == disk[f].idx.data
        lines == ScanLines(idx)
    IN  /\ idx # <<>> => idx[Len(idx)] = "\n"
        /\ \A k \in 1..Len(lines) :
              \E j \in 1..Len(appended[f]) :
                  RecordDescribes(lines[k], appended[f][j], disk[f].mbox.data)

\* C7: after an interruption at any point of a sequence of appends the index
\* file holds only complete, parseable records, each describing a body fully
\* present in the archive at the recorded offset.
C7_InterruptionSafe ==
    crashed => \A f \in Folders : IndexOnDiskSound(f)

\* C10: when line k of an index cannot be parsed, IdxScan fails with an
\* error naming the file and line k, and ReadAllIndex returns no snapshot
\* together with an error naming the file and line k.
C10_CorruptLineNamed ==
    /\ (last.op \in {"IdxScan", "MboxScan"} /\ ~last.ok /\ rd.err.kind = "parse") =>
           (rd.err.name = rd.Name /\ rd.err.line = rd.scanned)
    /\ (last.op = "ReadAllIndex" /\ ~last.ok) =>
           /\ rall.f = NoMeta
           /\ rall.err.name = rall.name
           /\ rall.err.line = rd.scanned

----------------------------------------------------------------------------
(* Properties of the commands *)

\* The identity an index record holds, from its scanned values
LineKey(vs) == <<vs[1], vs[2]>>

\* The identities the index file of folder f holds
IdxKeys(f) ==
    { LineKey(Sscanf(ScanLines(disk[f].idx.data)[k])) :
          k \in 1..Len(ScanLines(disk[f].idx.data)) }

\* The identities the mailbox f holds
RemoteKeys(f) ==
    { <<remote[f].UidValidity, remote[f].Messages[i].Uid>> :
          i \in 1..Len(remote[f].Messages) }

\* C1: when a backup attempt has returned success and the account has not
\* changed since that attempt began, a further backup attempt computes an
\* empty download set for every folder and makes no Append call.
C1_BackupIdempotent ==
    (proc.cmd = "backup" /\ hist.second /\ hist.stable
        /\ proc.pc \in {"download", "returned"}) =>
        /\ \A k \in 1..Len(proc.folders) : proc.folders[k].Messages = <<>>
        /\ hist.nAppends = 0

\* C2: when cmdBackup returns success and the account did not change during
\* the attempt, the identity of every message of every mailbox is in the
\* local index of its folder.
C2_BackupComplete ==
    (proc.cmd = "backup" /\ proc.pc = "returned" /\ proc.err = "nil"
        /\ ~hist.changed) =>
        \A f \in Folders : RemoteKeys(f) \subseteq IdxKeys(f)

\* What a file keeps over a step: it stays, and its old content stays at
\* the start of the new
FileKept(old, new) ==
    old.exists => (new.exists /\ IsPrefix(old.data, new.data))

\* C6: no step of any command (query, lquery, backup, restore, delete)
\* removes, shortens or rewrites a local file: each archive and each index
\* only grows at its end.
C6_LocalStoreAppendOnly ==
    [][\A f \in Folders : /\ FileKept(disk[f].mbox, disk'[f].mbox)
                          /\ FileKept(disk[f].idx, disk'[f].idx)]_vars

\* delete has expunged a message whose record and text the local folder
\* still holds
C6_Witness ==
    /\ proc.cmd = "delete"
    /\ proc.pc = "returned"
    /\ proc.err = "nil"
    /\ \E f \in Folders :
          /\ IdxKeys(f) \ RemoteKeys(f) # {}
          /\ Len(disk[f].mbox.data) > Len(Header(<<>>))

\* C8: main starts a further attempt only after an attempt that returned an
\* error; an attempt that returns success ends the run with status 0; the
\* run ends with a failure status only after Retries failed attempts.
C8_BoundedRetry ==
    LET o == hist.outcomes
    IN  /\ \A k \in 1..Len(o) :
              (k < Len(o) \/ proc.pc \in {"loop", "download"}) => ~o[k]
        /\ (proc.pc = "idle" /\ o # <<>>) =>
              IF o[Len(o)] THEN proc.exit = 0
              ELSE proc.exit = 1 /\ Len(o) = Retries

\* C9: query and backup do not fail because a folder of the account has no
\* local files: cmdQuery never returns the error of opening a missing file,
\* and when no folder has local files every listed message counts as new.
C9_AbsentFolderNotFailure ==
    (proc.cmd \in {"query", "backup"} /\ proc.pc \in {"download", "returned"}) =>
        /\ proc.err \notin (NotFoundTexts \cup {"no such file or directory"})
        /\ (proc.err = "nil" /\ \A f \in Folders : ~FoundLocal(disk[f])) =>
              proc.filteredMsgs = proc.totalMsgs

----------------------------------------------------------------------------
(* Properties of the functions of meta.go *)

\* Equal validity and equal uid
SameKey(m, x) == m.UidValidity = x.UidValidity /\ m.Uid = x.Uid

\* The snapshot exc holds a record of m's validity and uid
InExclude(m, exc) ==
    \E j \in 1..Len(exc.Messages) : SameKey(m, exc.Messages[j])

\* The sum of the Size fields of a message list
TotalSize(msgs) ==
    LET RECURSIVE Upto(_)
        Upto(n) == IF n = 0 THEN 0 ELSE Upto(n - 1) + msgs[n].Size
    IN  Upto(Len(msgs))

\* C11: FilterOut(source, exclude) returns exactly the records of source
\* whose (validity, uid) does not occur in exclude, in source's order and
\* with source's repetitions, and the sum of their sizes; with an empty
\* exclude it returns source's list and total size; it changes neither
\* argument.
C11_FilterOutContract ==
    fn.op = "FilterOut" =>
        /\ fn.res.Messages =
              SelectSeq(fn.src.Messages, LAMBDA m : ~InExclude(m, fn.exc))
        /\ fn.res.Size = TotalSize(fn.res.Messages)
        /\ fn.exc.Messages = <<>> =>
              (fn.res.Messages = fn.src.Messages /\ fn.res.Size = fn.src.Size)
        /\ fn.src = fn.src0
        /\ fn.exc = fn.exc0

\* A call that removed some of the longest source and kept two records of
\* one key
C11_Witness ==
    /\ fn.op = "FilterOut"
    /\ Len(fn.src.Messages) = MaxList
    /\ Len(fn.res.Messages) < MaxList
    /\ \E i, j \in 1..Len(fn.res.Messages) :
          i < j /\ SameKey(fn.res.Messages[i], fn.res.Messages[j])

\* C12: FilterOut(source, source) of a non-empty source, also one with
\* repeated keys, returns an empty list and size 0.
C12_SelfExclusion ==
    (fn.op = "FilterOutSelf" /\ fn.src.Messages # <<>>) =>
        (fn.res.Messages = <<>> /\ fn.res.Size = 0)

\* A self-exclusion of the longest source, with a repeated key
C12_Witness ==
    /\ fn.op = "FilterOutSelf"
    /\ Len(fn.src.Messages) = MaxList
    /\ \E i, j \in 1..MaxList :
          i < j /\ SameKey(fn.src.Messages[i], fn.src.Messages[j])

\* C13: a source record is removed exactly when exclude holds a record of
\* equal validity and equal uid, whatever their sequence numbers, sizes and
\* offsets; a record that differs in validity or in uid removes nothing.
C13_IdentityIsValidityAndUid ==
    fn.op = "FilterOut" =>
        \A i \in 1..Len(fn.src.Messages) :
            (\E k \in 1..Len(fn.res.Messages) :
                 fn.res.Messages[k] = fn.src.Messages[i])
            <=> ~InExclude(fn.src.Messages[i], fn.exc)

\* One source record went for a record of its key with another size and
\* offset; another stayed although exclude holds its uid under another
\* validity
C13_Witness ==
    /\ fn.op = "FilterOut"
    /\ \E i \in 1..Len(fn.src.Messages), j \in 1..Len(fn.exc.Messages) :
          /\ SameKey(fn.src.Messages[i], fn.exc.Messages[j])
          /\ fn.src.Messages[i].Size # fn.exc.Messages[j].Size
          /\ fn.src.Messages[i].Offset # fn.exc.Messages[j].Offset
          /\ \A k \in 1..Len(fn.res.Messages) :
                fn.res.Messages[k] # fn.src.Messages[i]
    /\ \E i \in 1..Len(fn.src.Messages), j \in 1..Len(fn.exc.Messages) :
          /\ fn.src.Messages[i].Uid = fn.exc.Messages[j].Uid
          /\ fn.src.Messages[i].UidValidity # fn.exc.Messages[j].UidValidity
          /\ \E k \in 1..Len(fn.res.Messages) :
                fn.res.Messages[k] = fn.src.Messages[i]

\* validity before uid
LexLess(a, b) ==
    \/ a.UidValidity < b.UidValidity
    \/ a.UidValidity = b.UidValidity /\ a.Uid < b.Uid

\* C14: GetUuid loses nothing of validity and uid: it fits the key's width,
\* equal keys mean equal validity and equal uid, and the keys are ordered as
\* the pairs are, by validity and then by uid.
C14_UuidInjectiveOrdered ==
    fn.op = "GetUuid" =>
        /\ fn.ka \in 0..(Word * Word - 1)
        /\ fn.ka = fn.kb => SameKey(fn.a, fn.b)
        /\ fn.ka < fn.kb <=> LexLess(fn.a, fn.b)

\* The greatest validity against a smaller one with a greater uid
C14_Witness ==
    /\ fn.op = "GetUuid"
    /\ fn.b.UidValidity = Word - 1
    /\ fn.a.UidValidity < fn.b.UidValidity
    /\ fn.a.Uid = Word - 1
    /\ fn.a.Uid > fn.b.Uid
    /\ fn.ka < fn.kb

----------------------------------------------------------------------------
(* Properties of the snapshots, of restore and of delete *)

SizeIsSum(f) == f.Size = TotalSize(f.Messages)

IndexSizeIsSum(r) == r.err = NoErr => SizeIsSum(r.f)

\* C15: the Size of every snapshot is the sum of the sizes of the records in
\* its Messages: when a command is about to run, for the snapshot
\* NewImapFolderMeta makes of each mailbox and for the one ReadAllIndex
\* makes of each index file; at all times, for the folders cmdQuery and
\* cmdRestore hold after filtering
C15_SnapshotSizeIsSum ==
    /\ proc.pc = "loop" =>
          /\ \A f \in Folders : SizeIsSum(NewImapFolderMeta(f, remote[f]))
          /\ \A f \in Folders :
                IndexSizeIsSum(ReadAllIndex(NewReader(f), disk[f].idx.data))
    /\ \A k \in 1..Len(proc.folders) : SizeIsSum(proc.folders[k])

\* A query or a restore has filtered a folder down to some of its records,
\* and the total of the ones kept is not zero
C15_Witness ==
    /\ proc.pc = "returned"
    /\ proc.cmd \in {"query", "restore"}
    /\ \E k \in 1..Len(proc.folders) :
          /\ proc.folders[k].Messages # <<>>
          /\ proc.folders[k].Size > 0
          /\ \/ /\ proc.cmd = "query"
                /\ Len(proc.folders[k].Messages)
                       < Len(remote[proc.folders[k].Name].Messages)
             \/ /\ proc.cmd = "restore"
                /\ Len(proc.folders[k].Messages)
                       < Cardinality(IdxKeys(proc.folders[k].Name))

\* The identities of the records of folder f's index file that mailbox f has
\* not, in the order of the file
LocalOnly(f) ==
    SelectSeq([k \in 1..Len(ScanLines(disk[f].idx.data)) |->
                   LineKey(Sscanf(ScanLines(disk[f].idx.data)[k]))],
              LAMBDA key : key \notin RemoteKeys(f))

Tagged(f, keys) == [k \in 1..Len(keys) |-> <<f, keys[k][1], keys[k][2]>>]

RECURSIVE LocalOnlyOf(_)
LocalOnlyOf(names) ==
    IF names = <<>> THEN <<>>
    ELSE Tagged(Head(names), LocalOnly(Head(names))) \o LocalOnlyOf(Tail(names))

UploadKeys(ups) ==
    [k \in 1..Len(ups) |-> <<ups[k].folder, ups[k].UidValidity, ups[k].Uid>>]

\* Every local folder opens and its index reads without error
LocalReadable ==
    \A k \in 1..Len(GetLocalFolderNames) :
       /\ FoundLocal(disk[GetLocalFolderNames[k]])
       /\ ReadAllIndex(NewReader(GetLocalFolderNames[k]),
                       disk[GetLocalFolderNames[k]].idx.data).err = NoErr

RestoreCall == proc.pc = "loop" /\ proc.cmd = "restore" /\ proc'.pc = "returned"

\* C16: a restore whose local folders are readable and whose server and
\* message reads do not fail returns success; every local folder then has a
\* mailbox, and what was uploaded is, folder by folder, the local records
\* whose identity the mailbox did not have, in index order, each once.  A
\* further attempt of the same run uploads none of them again.
C16_RestoreUploadsMissing ==
    [][/\ (RestoreCall /\ LocalReadable /\ DirExists
              /\ proc'.err \notin {"imap", "read"})
          => /\ proc'.err = "nil"
             /\ \A k \in 1..Len(GetLocalFolderNames) :
                   remote'[GetLocalFolderNames[k]].exists
             /\ UploadKeys(hist'.uploads) = LocalOnlyOf(GetLocalFolderNames)
       /\ (RestoreCall /\ proc.i > 0)
          => \A a \in 1..Len(hist.uploads), b \in 1..Len(hist'.uploads) :
                UploadKeys(hist.uploads)[a] # UploadKeys(hist'.uploads)[b]]_vars

RECURSIVE Planned(_)
\* The number of records in the folders cmdRestore holds after filtering
Planned(folders) ==
    IF folders = <<>> THEN 0
    ELSE Len(Head(folders).Messages) + Planned(Tail(folders))

\* Whether the text has a Received header that ends in a date
Dated(text) ==
    /\ \E i \in 1..Len(text) : text[i] \in {"R", "r", "u"}
    /\ \A i \in 1..Len(text) :
          text[i] \in {"r", "u"} => \E j \in 1..(i - 1) : text[j] = "R"

SaysYes(line) ==
    SelectSeq(line, LAMBDA c : c \notin {" ", "\t", "\r", "\n"}) \in {<<"y">>, <<"Y">>}

\* C18: an attempt of delete without the force flag, to whose prompt the
\* answer is not y or Y once the white space around it is taken off, leaves
\* every mailbox as it was; when the connection was made, cmdDelete returns
\* the error of the missing confirmation
C18_DeleteNeedsConfirmation ==
    [][(/\ proc.pc = "loop"
        /\ proc.cmd = "delete"
        /\ ~proc.force
        /\ proc'.pc = "returned"
        /\ ~SaysYes(proc'.yn))
       => /\ remote' = remote
          /\ proc'.err \in {"imap", "user did not confirm"}]_vars

\* delete without force was answered yes and a newline, and returned the
\* error, with messages in the account
C18_Witness ==
    /\ proc.pc = "returned"
    /\ proc.cmd = "delete"
    /\ ~proc.force
    /\ proc.months > 0
    /\ proc.yn = <<"y", "e", "s", "\n">>
    /\ proc.err = "user did not confirm"
    /\ \E f \in Folders : remote[f].Messages # <<>>

\* C19: a delete whose months value is not positive is rejected: it never
\* gets to an attempt that returns without error, and no step of it takes a
\* message from the account
C19_NonPositiveMonthsRejected ==
    [][(/\ proc.cmd = "delete"
        /\ proc.months <= 0
        /\ proc.pc = "loop"
        /\ proc'.pc = "returned")
       => /\ proc'.err # "nil"
          /\ remote' = remote]_vars

Named(names) == { names[i] : i \in 1..Len(names) }

\* C20: in a run with a restrict list, no step of the program lists, reads
\* or writes a folder the list does not name: the command holds no such
\* folder, and the mailbox and the local files of such a folder stay as they
\* are over every step of the program
C20_RestrictedToListedFolders ==
    [][(proc.pc # "idle" /\ proc.restrict # <<>> /\ proc' # proc)
       => /\ \A k \in 1..Len(proc'.folders) :
                proc'.folders[k].Name \in Named(proc.restrict)
          /\ \A f \in Folders \ Named(proc.restrict) :
                remote'[f] = remote[f] /\ disk'[f] = disk[f]]_vars

----------------------------------------------------------------------------
(* Properties of query, of the order of the store and of reopening *)

\* C21: no step of a query run, from the connection to the end of the
\* retry loop, changes a local file, a handle or a mailbox, with or without
\* local folders
C21_QueryOnlyReports ==
    [][(proc.cmd = "query" /\ proc.pc # "idle" /\ proc' # proc)
       => /\ disk' = disk
          /\ wr' = wr
          /\ remote' = remote]_vars

\* A query has returned without error over an account with messages, one
\* folder being stored locally and the other not
C21_Witness ==
    /\ proc.cmd = "query"
    /\ proc.pc = "returned"
    /\ proc.err = "nil"
    /\ \E f \in Folders : FoundLocal(disk[f]) /\ remote[f].Messages # <<>>
    /\ \E f \in Folders : ~FoundLocal(disk[f]) /\ remote[f].exists

\* C23: OpenLocalFolderAppend on a folder whose files an earlier
\* OpenLocalFolderAppend created, and which was closed since, succeeds.
\* (Under SpecStore every file that exists was created by
\* OpenLocalFolderAppend.)
C23_ReopenForAppend ==
    last.op = "OpenLocalFolderAppend" => last.ok

\* C24: a failed write of an index record reaches the caller from Append or
\* at the latest from Close: when Close has returned without an error, and
\* no Append reported one, the index file of every closed folder holds one
\* record for every Append call.
C24_WriteFailureReported ==
    (last.op = "Close" /\ last.ok) =>
        \A f \in Folders :
            ~wr[f].open =>
                Len(ScanLines(disk[f].idx.data)) = Len(appended[f])

----------------------------------------------------------------------------
(* Properties of cmdHisto *)

\* The number of sizes that fall into bin b
InBin(sizes, b, numBins, binStrideBytes) ==
    Cardinality({ i \in 1..Len(sizes) :
                    HistoBin(sizes[i], numBins, binStrideBytes) = b })

RECURSIVE SumBins(_)
SumBins(bins) == IF bins = <<>> THEN 0 ELSE Head(bins) + SumBins(Tail(bins))

\* C30: cmdHisto completes without a division by zero, also when the folders
\* hold no message at all or no folder is listed, and returns its bins; every
\* message is counted in exactly one bin, bin min(size / binStrideBytes,
\* numBins - 1), so the bins sum to the number of messages.
C30_HistoNoDivisionByZero ==
    fn.op = "cmdHisto" =>
        LET sizes == AllSizes(fn.folders)
        IN  /\ ~fn.res.panic
            /\ Len(fn.res.bins) = fn.numBins
            /\ \A b \in 0..(fn.numBins - 1) :
                   fn.res.bins[b + 1] =
                       InBin(sizes, b, fn.numBins, fn.binStrideBytes)
            /\ SumBins(fn.res.bins) = Len(sizes)

----------------------------------------------------------------------------
(* Properties of the index over several backup runs *)

\* The validity stamps of the records of folder f's index
IdxStamps(f) == { k[1] : k \in IdxKeys(f) }

\* C25: after any sequence of backup runs, also after the mailbox's validity
\* stamp changed, all records of a folder's index carry the same validity
\* stamp.
C25_OneValidityPerIndex ==
    \A f \in Folders : ~wr[f].open => Cardinality(IdxStamps(f)) <= 1

\* C26: after any sequence of backup runs, also failing ones and ones during
\* which the mailbox gains or loses messages between the listing and the
\* download, no two records of a folder's index have the same identity.
C26_NoDuplicateIdentity ==
    \A f \in Folders :
        ~wr[f].open =>
            Cardinality(IdxKeys(f)) = Len(ScanLines(disk[f].idx.data))

\* The round of cmdBackup's download loop that calls DownloadTo for a
\* mailbox whose validity stamp is no longer the listed one
DownloadAcrossChange ==
    /\ proc.pc = "download"
    /\ proc' # proc
    /\ proc.folders[proc.j].Messages # <<>>
    /\ OpenAppendFiles(disk[proc.folders[proc.j].Name]).ok
    /\ remote[proc.folders[proc.j].Name].UidValidity
           # proc.folders[proc.j].UidValidity

\* C27: DownloadTo returns an error and appends nothing to the archive or
\* the index when the validity stamp of the selected mailbox differs from
\* the one of the listing.
C27_RefusesValidityChange ==
    [][DownloadAcrossChange =>
          /\ proc'.pc = "returned"
          /\ proc'.err = "UidValidity changed"
          /\ appended' = appended
          /\ \A f \in Folders :
                /\ disk'[f].mbox.data = disk[f].mbox.data
                /\ disk'[f].idx.data = disk[f].idx.data]_vars

C27_Witness ==
    /\ proc.pc = "returned"
    /\ proc.err = "UidValidity changed"
    /\ \E f \in StoreFolders :
          /\ remote[f].UidValidity # EmptyMailbox.UidValidity
          /\ remote[f].Messages # <<>>
          /\ IdxStamps(f) = {EmptyMailbox.UidValidity}

----------------------------------------------------------------------------
(* Properties of the hand-off between the fetch and the loop *)

\* The messages delivered into the channel so far, in the order of delivery
Delivered1(sent) == [k \in 1..sent |-> k]

\* The archive that holds the messages of the Append calls as, in order
RECURSIVE ArchiveOf(_)
ArchiveOf(as) ==
    IF as = <<>> THEN <<>>
    ELSE Header(Head(as).from) \o Head(as).body \o <<"\n">>
         \o ArchiveOf(Tail(as))

\* C22: the Append calls of a download are made in the order in which the
\* fetch delivered the messages into the channel, and the records of the
\* index and the bodies of the archive are in the order of the Append calls.
C22_OrderPreserved ==
    \A f \in StoreFolders :
        LET lines == ScanLines(IdxWritten(f))
        IN  /\ fetch.got = SubSeq(Delivered1(fetch.sent), 1, Len(fetch.got))
            /\ fetch.kind = "download" =>
                  /\ Len(appended[f]) = Len(fetch.got)
                  /\ \A k \in 1..Len(fetch.got) :
                        appended[f][k].Uid = FetchedMessage(fetch.got[k]).Uid
                  /\ Len(lines) = Len(appended[f])
                  /\ \A k \in 1..Len(lines) :
                        LineKey(Sscanf(lines[k])) =
                            <<appended[f][k].UidValidity, appended[f][k].Uid>>
                  /\ disk[f].mbox.data = ArchiveOf(appended[f])

C22_Witness ==
    /\ fetch.kind = "download"
    /\ fetch.consumer = "returned"
    /\ ~fetch.aborted
    /\ fetch.n > ChanCap
    /\ Len(appended["A"]) = fetch.n

\* C28: when the loop of DownloadTo has returned early, the task that runs
\* the fetch still terminates, however many messages remain.
C28_AbortDoesNotHang == fetch.aborted ~> (fetch.producer = "exit")

\* What holds of the hand-off at every moment
HandOffSafe ==
    /\ fetch.consumer = "done" => fetch.closed /\ fetch.messages = <<>>
    /\ (fetch.consumer = "returned" /\ ~fetch.aborted /\ fetch.kind # "none") =>
          /\ fetch.closed
          /\ fetch.producer = "exit"
          /\ fetch.got = Delivered1(fetch.sent)
          /\ fetch.err = fetch.res
          /\ fetch.err = "nil" => Len(fetch.got) = fetch.n

\* C29: on the path without an early return every message delivered is
\* processed exactly once, the loop reads the result of the fetch only after
\* the channel is closed, an error of the fetch is what the function returns,
\* and both tasks terminate.
C29_HandOff ==
    /\ []HandOffSafe
    /\ <>(fetch.aborted \/ (fetch.consumer = "returned" /\ fetch.producer = "exit"))

C29_Witness ==
    /\ fetch.kind = "list"
    /\ fetch.consumer = "returned"
    /\ fetch.producer = "exit"
    /\ fetch.n > ChanCap
    /\ Len(fetch.got) = fetch.n
    /\ fetch.err = "nil"

============================================================================
